---- MODULE Spec2Model ----
(***************************************************************************)
(* Model of the quota ledger of discord-clanker                            *)
(* (internal/ratelimit/limiter.go and the Lua scripts it loads into the    *)
(* shared Redis store).                                                    *)
(*                                                                         *)
(* The store is a map from keys to counters with an expiry.  Each request  *)
(* handler is a process: it reads its limits (and, for tokens, the clock)  *)
(* in Go, and then has the store run one script.  The store runs a script  *)
(* as one indivisible step; time may pass between the Go part and the      *)
(* script.                                                                 *)
(***************************************************************************)
EXTENDS Integers, Sequences, FiniteSets, TLC

VARIABLES
    now,        \* wall clock, in seconds since epoch zero
    store,      \* the Redis keyspace: key -> Nil or [val, exp]
    pc,         \* per handler: "idle", "rate" or "token" (a call in flight)
    arg,        \* per handler: the arguments of the call in flight
    ev,         \* the limiter call that finished in the last step: its arguments,
                \* the store before and after it, and its result
    calls,      \* number of limiter calls started
    rateSeq,    \* number of rate scripts run so far
    firstAt,    \* time of the first rate script (-1: none yet)
    rateUsed,   \* the limits passed to CheckRateLimit so far: none, one value, or "mixed"
    tokenUsed,  \* the same for CheckTokenLimit
    admitted,   \* per token period: sum of the increments admitted on its key
    config,     \* the configuration held by the rbac Manager
    history,    \* the stored messages of one conversation, oldest first
    bot,        \* Bot.config and the configuration held by the LLM registry
    reload,     \* Bot.Reload in flight: its position and its argument
    req,        \* the request being handled: its position and its locals
    conv,       \* the stored metadata of the conversation, or NoConv
    historyExp, \* when the stored message list expires, or NoExpiry
    added,      \* the messages added so far: all of them, and those added
                \* since the stored list was last created
    encoders    \* a TokenCounter's cache: the encodings whose encoder it holds

vars == <<now, store, pc, arg, ev, calls, rateSeq, firstAt, rateUsed, tokenUsed,
          admitted, config, history, bot, reload, req, conv, historyExp, added,
          encoders>>

-----------------------------------------------------------------------------
(* Bounds of the model *)

MaxTime == 3659
MaxCalls == 4

(* Program constants *)

MinuteTTL == 60
HourTTL == 3600
SecondsPerHour == 3600

Procs == {"h1", "h2"}
Guild == "guild1"
Users == {"user1"}

\* The instants the clock visits: the first and the last second of the first
\* two minutes and of the last minute of every hour.
Instants ==
    {t \in 0..MaxTime :
        /\ t % MinuteTTL \in {0, MinuteTTL - 1}
        /\ (t \div MinuteTTL) % 60 \in {0, 1, 59}}

\* Limits a guild configures (0 = unlimited).
RateLimitChoices ==
    {[RequestsPerMinute |-> 0, RequestsPerHour |-> 0],
     [RequestsPerMinute |-> 2, RequestsPerHour |-> 0],
     [RequestsPerMinute |-> 0, RequestsPerHour |-> 2],
     [RequestsPerMinute |-> 1, RequestsPerHour |-> 1],
     [RequestsPerMinute |-> 1, RequestsPerHour |-> 2],
     [RequestsPerMinute |-> 3, RequestsPerHour |-> 10]}

TokenLimitChoices ==
    {[Bypass |-> TRUE, TokensPerPeriod |-> 0, PeriodHours |-> 0],
     [Bypass |-> FALSE, TokensPerPeriod |-> 0, PeriodHours |-> 1],
     [Bypass |-> FALSE, TokensPerPeriod |-> 100, PeriodHours |-> 1]}

TokenAmounts == {0, 30, 50}

-----------------------------------------------------------------------------
(* storage.Keys *)

\* Mutant: the minute key does not carry the user.
RateLimitMinute_NoUser(guildID, userID) == <<guildID, "ratelimit", "user1", "minute">>

RateLimitMinute(guildID, userID) == <<guildID, "ratelimit", userID, "minute">>

RateLimitHour(guildID, userID) == <<guildID, "ratelimit", userID, "hour">>

\* Mutant: the token key does not carry the period.
TokenLimit_NoPeriod(guildID, userID, periodStart) == <<guildID, "tokens", userID, 0>>

TokenLimit(guildID, userID, periodStart) == <<guildID, "tokens", userID, periodStart>>

PeriodStarts == {(t \div SecondsPerHour) * SecondsPerHour : t \in Instants}

\* The (guild, user) pairs that send requests.
Principals == {<<Guild, u>> : u \in Users} \cup {<<Guild, "user2">>, <<"guild2", "user1">>}

KeysOf(q) ==
    {RateLimitMinute(q[1], q[2]), RateLimitHour(q[1], q[2])}
      \cup {TokenLimit(q[1], q[2], s) : s \in PeriodStarts}

AllKeys == UNION {KeysOf(q) : q \in Principals}

-----------------------------------------------------------------------------
(* The Redis commands the scripts call.  A key holds Nil or a counter with  *)
(* an expiry time (NoExpiry: none).  A key whose expiry has passed is gone. *)

Nil == [val |-> -1, exp |-> -1]
NoExpiry == -2

Live(db, k, t) == db[k] # Nil /\ (db[k].exp = NoExpiry \/ db[k].exp > t)

\* redis.call('GET', k) or "0", through tonumber
GET(db, k, t) == IF Live(db, k, t) THEN db[k].val ELSE 0

\* Mutant: the time left is reported one second short.
TTL_Short(db, k, t) ==
    IF ~Live(db, k, t) THEN -2
    ELSE IF db[k].exp = NoExpiry THEN -1
    ELSE db[k].exp - t - 1

\* redis.call('TTL', k): -2 for no key, -1 for no expiry, else the seconds left
TTL(db, k, t) ==
    IF ~Live(db, k, t) THEN -2
    ELSE IF db[k].exp = NoExpiry THEN -1
    ELSE db[k].exp - t

\* redis.call('SET', k, v, 'EX', seconds)
SETEX(db, k, v, seconds, t) == [db EXCEPT ![k] = [val |-> v, exp |-> t + seconds]]

\* redis.call('INCRBY', k, n): keeps the expiry; a missing key is created without one
INCRBY(db, k, n, t) ==
    IF Live(db, k, t)
    THEN [db EXCEPT ![k].val = @ + n]
    ELSE [db EXCEPT ![k] = [val |-> n, exp |-> NoExpiry]]

\* Keys whose expiry has passed are reclaimed by the store.
Purge(db, t) == [k \in DOMAIN db |-> IF Live(db, k, t) THEN db[k] ELSE Nil]

-----------------------------------------------------------------------------
(* rateLimitScript: one indivisible evaluation on the store at time t.      *)
(* Returns the new keyspace and the reply {status, seconds}.                *)

\* ttl > 0 and ttl or full
TtlOr(ttl, full) == IF ttl > 0 THEN ttl ELSE full

\* Mutant: the counter is set to 1 on every allowed check instead of incremented.
RateIncrement_AlwaysSet(db, k, cur, seconds, t) == SETEX(db, k, 1, seconds, t)

\* Mutant: every increment renews the counter's expiry.
RateIncrement_RenewTTL(db, k, cur, seconds, t) ==
    SETEX(db, k, cur + 1, seconds, t)

\* Mutant: a fresh counter is created by the increment, without an expiry.
RateIncrement_NoExpiry(db, k, cur, seconds, t) == INCRBY(db, k, 1, t)

RateIncrement(db, k, cur, seconds, t) ==
    IF cur = 0 THEN SETEX(db, k, 1, seconds, t) ELSE INCRBY(db, k, 1, t)

\* Mutant: the limits are compared with > instead of >=.
rateLimitScript_OffByOne(db, t, minuteKey, hourKey, minute_limit, hour_limit, minuteTTL, hourTTL) ==
    LET minute == GET(db, minuteKey, t)
        hour == GET(db, hourKey, t)
    IN  IF minute_limit > 0 /\ minute > minute_limit
        THEN [db |-> db, reply |-> <<-1, TtlOr(TTL(db, minuteKey, t), 60)>>]
        ELSE IF hour_limit > 0 /\ hour > hour_limit
        THEN [db |-> db, reply |-> <<-2, TtlOr(TTL(db, hourKey, t), 3600)>>]
        ELSE [db |-> RateIncrement(RateIncrement(db, minuteKey, minute, minuteTTL, t),
                                   hourKey, hour, hourTTL, t),
              reply |-> <<1, 0>>]

\* Mutant: the hour window is checked before the minute window.
rateLimitScript_HourFirst(db, t, minuteKey, hourKey, minute_limit, hour_limit, minuteTTL, hourTTL) ==
    LET minute == GET(db, minuteKey, t)
        hour == GET(db, hourKey, t)
    IN  IF hour_limit > 0 /\ hour >= hour_limit
        THEN [db |-> db, reply |-> <<-2, TtlOr(TTL(db, hourKey, t), 3600)>>]
        ELSE IF minute_limit > 0 /\ minute >= minute_limit
        THEN [db |-> db, reply |-> <<-1, TtlOr(TTL(db, minuteKey, t), 60)>>]
        ELSE [db |-> RateIncrement(RateIncrement(db, minuteKey, minute, minuteTTL, t),
                                   hourKey, hour, hourTTL, t),
              reply |-> <<1, 0>>]

\* Mutant: the minute counter is incremented as soon as the minute window
\* passes, before the hour window is checked.
rateLimitScript_IncrBeforeHour(db, t, minuteKey, hourKey, minute_limit, hour_limit, minuteTTL, hourTTL) ==
    LET minute == GET(db, minuteKey, t)
        hour == GET(db, hourKey, t)
        db1 == RateIncrement(db, minuteKey, minute, minuteTTL, t)
    IN  IF minute_limit > 0 /\ minute >= minute_limit
        THEN [db |-> db, reply |-> <<-1, TtlOr(TTL(db, minuteKey, t), 60)>>]
        ELSE IF hour_limit > 0 /\ hour >= hour_limit
        THEN [db |-> db1, reply |-> <<-2, TtlOr(TTL(db1, hourKey, t), 3600)>>]
        ELSE [db |-> RateIncrement(db1, hourKey, hour, hourTTL, t),
              reply |-> <<1, 0>>]

\* Mutant: an allowed check increments the minute counter only.
rateLimitScript_MinuteOnly(db, t, minuteKey, hourKey, minute_limit, hour_limit, minuteTTL, hourTTL) ==
    LET minute == GET(db, minuteKey, t)
        hour == GET(db, hourKey, t)
    IN  IF minute_limit > 0 /\ minute >= minute_limit
        THEN [db |-> db, reply |-> <<-1, TtlOr(TTL(db, minuteKey, t), 60)>>]
        ELSE IF hour_limit > 0 /\ hour >= hour_limit
        THEN [db |-> db, reply |-> <<-2, TtlOr(TTL(db, hourKey, t), 3600)>>]
        ELSE [db |-> RateIncrement(db, minuteKey, minute, minuteTTL, t),
              reply |-> <<1, 0>>]

rateLimitScript(db, t, minuteKey, hourKey, minute_limit, hour_limit, minuteTTL, hourTTL) ==
    LET minute == GET(db, minuteKey, t)
        hour == GET(db, hourKey, t)
    IN  IF minute_limit > 0 /\ minute >= minute_limit
        THEN [db |-> db,
              reply |-> <<-1, TtlOr(TTL(db, minuteKey, t), 60)>>]
        ELSE IF hour_limit > 0 /\ hour >= hour_limit
        THEN [db |-> db,
              reply |-> <<-2, TtlOr(TTL(db, hourKey, t), 3600)>>]
        ELSE [db |-> RateIncrement(RateIncrement(db, minuteKey, minute, minuteTTL, t),
                                   hourKey, hour, hourTTL, t),
              reply |-> <<1, 0>>]

\* What EvalSha hands back: an error, or a value that is a list of typed
\* elements or something else.
Int64(n) == [type |-> "int64", v |-> n]
NotInt64 == [type |-> "string", v |-> 0]
Wire(reply) ==
    [err |-> FALSE, list |-> TRUE,
     values |-> [i \in 1..Len(reply) |-> Int64(reply[i])]]

\* x, _ := v.(int64): the zero value when v is no int64
AsInt64(item) == IF item.type = "int64" THEN item.v ELSE 0

\* Limiter.CheckRateLimit after EvalSha: the error check, the format check
\* and the switch on the status.
CheckRateLimitReturn(w) ==
    IF w.err THEN [err |-> "rate limit check failed"]
    ELSE IF ~w.list \/ Len(w.values) # 2
    THEN [err |-> "unexpected rate limit result format"]
    ELSE
    LET status == AsInt64(w.values[1])
        seconds == AsInt64(w.values[2])
    IN  IF status = 1
        THEN [err |-> "", Allowed |-> TRUE, SecondsToReset |-> 0, LimitType |-> ""]
        ELSE IF status = -1
        THEN [err |-> "", Allowed |-> FALSE, SecondsToReset |-> seconds,
              LimitType |-> "minute"]
        ELSE IF status = -2
        THEN [err |-> "", Allowed |-> FALSE, SecondsToReset |-> seconds,
              LimitType |-> "hour"]
        ELSE [err |-> "unknown rate limit status"]

\* Limiter.CheckRateLimit's reading of the script's reply
RateLimitResult(reply) == CheckRateLimitReturn(Wire(reply))

-----------------------------------------------------------------------------
(* tokenLimitScript *)

\* Mutant: an allowed call overwrites the usage with to_add instead of adding it.
tokenLimitScript_Overwrite(db, t, key, limit, ttlSeconds, to_add) ==
    IF limit = 0 THEN [db |-> db, reply |-> <<1, 0, 0, 0>>]
    ELSE
    LET used == GET(db, key, t)
    IN  IF used + to_add > limit
        THEN [db |-> db,
              reply |-> <<-1, used, limit - used, TtlOr(TTL(db, key, t), ttlSeconds)>>]
        ELSE [db |-> SETEX(db, key, to_add, ttlSeconds, t),
              reply |-> <<1, to_add, limit - to_add, 0>>]

\* Mutant: a request that reaches the limit exactly is denied.
tokenLimitScript_DenyAtLimit(db, t, key, limit, ttlSeconds, to_add) ==
    IF limit = 0 THEN [db |-> db, reply |-> <<1, 0, 0, 0>>]
    ELSE
    LET used == GET(db, key, t)
    IN  IF used + to_add >= limit
        THEN [db |-> db,
              reply |-> <<-1, used, limit - used, TtlOr(TTL(db, key, t), ttlSeconds)>>]
        ELSE [db |-> IF used = 0 THEN SETEX(db, key, to_add, ttlSeconds, t)
                                 ELSE INCRBY(db, key, to_add, t),
              reply |-> <<1, used + to_add, limit - (used + to_add), 0>>]

\* Mutant: the usage is incremented before the check, so a denied request is
\* counted too.
tokenLimitScript_CountDenied(db, t, key, limit, ttlSeconds, to_add) ==
    IF limit = 0 THEN [db |-> db, reply |-> <<1, 0, 0, 0>>]
    ELSE
    LET used == GET(db, key, t)
        db1 == IF used = 0 THEN SETEX(db, key, to_add, ttlSeconds, t)
                           ELSE INCRBY(db, key, to_add, t)
    IN  IF used + to_add > limit
        THEN [db |-> db1,
              reply |-> <<-1, used + to_add, limit - (used + to_add),
                          TtlOr(TTL(db1, key, t), ttlSeconds)>>]
        ELSE [db |-> db1,
              reply |-> <<1, used + to_add, limit - (used + to_add), 0>>]

tokenLimitScript(db, t, key, limit, ttlSeconds, to_add) ==
    IF limit = 0 THEN [db |-> db, reply |-> <<1, 0, 0, 0>>]
    ELSE
    LET used == GET(db, key, t)
    IN  IF used + to_add > limit
        THEN [db |-> db,
              reply |-> <<-1, used, limit - used,
                          TtlOr(TTL(db, key, t), ttlSeconds)>>]
        ELSE [db |-> IF used = 0 THEN SETEX(db, key, to_add, ttlSeconds, t)
                                 ELSE INCRBY(db, key, to_add, t),
              reply |-> <<1, used + to_add, limit - (used + to_add), 0>>]

\* Limiter.CheckTokenLimit after EvalSha: the error check, the format check
\* and the test of the status.
CheckTokenLimitReturn(w) ==
    IF w.err THEN [err |-> "token limit check failed"]
    ELSE IF ~w.list \/ Len(w.values) # 4
    THEN [err |-> "unexpected token limit result format"]
    ELSE
    LET status == AsInt64(w.values[1])
        used == AsInt64(w.values[2])
        remaining == AsInt64(w.values[3])
        seconds == AsInt64(w.values[4])
    IN  IF status = 1
        THEN [err |-> "", Allowed |-> TRUE, TokensUsed |-> used,
              TokensRemaining |-> remaining, SecondsToReset |-> 0]
        ELSE [err |-> "", Allowed |-> FALSE, TokensUsed |-> used,
              TokensRemaining |-> remaining, SecondsToReset |-> seconds]

\* Limiter.CheckTokenLimit's reading of the script's reply
TokenLimitResult(reply) == CheckTokenLimitReturn(Wire(reply))

\* The bypass branch of Limiter.CheckTokenLimit
BypassResult ==
    [err |-> "", Allowed |-> TRUE, TokensUsed |-> 0, TokensRemaining |-> 0,
     SecondsToReset |-> 0]

PeriodStart(t, periodSeconds) == (t \div periodSeconds) * periodSeconds

-----------------------------------------------------------------------------
(* Role-based access control: rbac.Manager over the configuration.  Model   *)
(* references and patterns are strings, kept as sequences of characters;    *)
(* role names, permissions and guild ids are only ever compared whole.       *)

ModelPX == <<"p", "/", "x">>
ModelPY == <<"p", "/", "y">>
ModelQX == <<"q", "/", "x">>
ModelPXY == <<"p", "x", "/", "y">>
ModelRefs == {ModelPX, ModelPY, ModelQX, ModelPXY}

PatternAll == <<"*">>
PatternP == <<"p", "/", "*">>
PatternQ == <<"q", "/", "*">>
Patterns == {PatternAll, PatternP, PatternQ, ModelPX, ModelQX, <<"p", "*">>}

Everyone == "@everyone"
RoleNames == {"Admin", "Member", Everyone}
Permissions == {"use_models", "manage_prompts"}
GuildIDs == {Guild, "guild2"}
MemberRoles == {<<>>, <<"Member">>, <<"Admin", "Member">>}

\* What a role policy grants: its Permissions and its AllowedModels.
Grants ==
    {[Permissions |-> <<"use_models">>, AllowedModels |-> <<ModelPX>>],
     [Permissions |-> <<"use_models", "manage_prompts">>,
      AllowedModels |-> <<ModelQX, PatternP>>],
     [Permissions |-> <<>>, AllowedModels |-> <<PatternAll>>]}

\* config.RoleConfig
RoleConfigs ==
    {[DiscordRole |-> r, Permissions |-> g.Permissions,
      AllowedModels |-> g.AllowedModels] : r \in RoleNames, g \in Grants}

RoleLists ==
    {<<>>} \cup {<<a>> : a \in RoleConfigs} \cup {<<a, b>> : a, b \in RoleConfigs}

EnabledChoices == {<<ModelPX, ModelPY, ModelPXY>>, <<ModelPX, ModelQX>>}

\* config.Config with one configured guild
\* The limits and the context size of a guild that sets nothing special.
PlainRateLimits ==
    [Default |-> [RequestsPerMinute |-> 1, RequestsPerHour |-> 2], Roles |-> <<>>]
PlainTokenLimits ==
    [Default |-> [Bypass |-> FALSE, TokensPerPeriod |-> 1500, PeriodHours |-> 1],
     Roles |-> <<>>]
GuildConfig(enabled, roles) ==
    [ID |-> Guild, EnabledModels |-> enabled, RBAC |-> [Roles |-> roles],
     RateLimits |-> PlainRateLimits, TokenLimits |-> PlainTokenLimits,
     MaxContextTokens |-> 1020]
ConfigChoices ==
    {[Guilds |-> <<GuildConfig(e, r)>>] : e \in EnabledChoices, r \in RoleLists}
InitialConfig == [Guilds |-> <<GuildConfig(<<ModelPX, ModelPY, ModelPXY>>, <<>>)>>]

Range(seq) == {seq[i] : i \in 1..Len(seq)}

\* Config.GetGuild: the first guild with that id, or an error
GetGuild(cfg, guildID) ==
    LET hits == {i \in 1..Len(cfg.Guilds) : cfg.Guilds[i].ID = guildID}
    IN  IF hits = {} THEN [err |-> TRUE]
        ELSE [err |-> FALSE,
              guild |-> cfg.Guilds[CHOOSE i \in hits : \A j \in hits : i <= j]]

\* strings.HasSuffix, strings.HasPrefix
HasSuffix(s, suffix) ==
    /\ Len(s) >= Len(suffix)
    /\ SubSeq(s, Len(s) - Len(suffix) + 1, Len(s)) = suffix
HasPrefix(s, prefix) ==
    /\ Len(s) >= Len(prefix)
    /\ SubSeq(s, 1, Len(prefix)) = prefix

matchesModelPattern_NoSeparator(modelRef, pattern) ==
    IF pattern = <<"*">> THEN TRUE
    ELSE IF modelRef = pattern THEN TRUE
    ELSE IF HasSuffix(pattern, <<"/", "*">>)
    THEN HasPrefix(modelRef, SubSeq(pattern, 1, Len(pattern) - 2))
    ELSE FALSE

matchesModelPattern(modelRef, pattern) ==
    IF pattern = <<"*">> THEN TRUE
    ELSE IF modelRef = pattern THEN TRUE
    ELSE IF HasSuffix(pattern, <<"/", "*">>)
    THEN LET prefix == SubSeq(pattern, 1, Len(pattern) - 2)
         IN  HasPrefix(modelRef, prefix \o <<"/">>)
    ELSE FALSE

contains(slice, item) == \E i \in 1..Len(slice) : slice[i] = item

\* Manager.getRoleNames: the member's roles, copied
getRoleNames(member) == member

\* The test every loop over guildCfg.RBAC.Roles starts with.
RoleApplies(roleNames, roleConfig) ==
    contains(roleNames, roleConfig.DiscordRole) \/ roleConfig.DiscordRole = "@everyone"

HasPermission_FirstRole(cfg, guildID, member, perm) ==
    LET g == GetGuild(cfg, guildID)
    IN  IF g.err THEN FALSE
        ELSE LET roles == g.guild.RBAC.Roles
                 app == {i \in 1..Len(roles) : RoleApplies(getRoleNames(member), roles[i])}
             IN  /\ app # {}
                 /\ contains(roles[CHOOSE i \in app : \A j \in app : i <= j].Permissions,
                             perm)

HasPermission(cfg, guildID, member, perm) ==
    LET g == GetGuild(cfg, guildID)
    IN  IF g.err THEN FALSE
        ELSE LET roles == g.guild.RBAC.Roles
             IN  \E i \in 1..Len(roles) :
                    /\ RoleApplies(getRoleNames(member), roles[i])
                    /\ contains(roles[i].Permissions, perm)

CanUseModel(cfg, guildID, member, modelRef) ==
    LET g == GetGuild(cfg, guildID)
    IN  IF g.err THEN FALSE
        ELSE LET roles == g.guild.RBAC.Roles
             IN  \E i \in 1..Len(roles) :
                    /\ RoleApplies(getRoleNames(member), roles[i])
                    /\ \E k \in 1..Len(roles[i].AllowedModels) :
                          matchesModelPattern(modelRef, roles[i].AllowedModels[k])

GetAllowedModels_AnyModel(cfg, guildID, member) ==
    LET g == GetGuild(cfg, guildID)
    IN  IF g.err THEN {}
        ELSE LET roles == g.guild.RBAC.Roles
                 app == {i \in 1..Len(roles) : RoleApplies(getRoleNames(member), roles[i])}
             IN  {m \in ModelRefs :
                    \E i \in app : \E k \in 1..Len(roles[i].AllowedModels) :
                       matchesModelPattern(m, roles[i].AllowedModels[k])}

\* The returned slice as the set of its elements: the order of a result built
\* from the map is not determined.
GetAllowedModels(cfg, guildID, member) ==
    LET g == GetGuild(cfg, guildID)
    IN  IF g.err THEN {}
        ELSE LET roles == g.guild.RBAC.Roles
                 enabled == g.guild.EnabledModels
                 app == {i \in 1..Len(roles) : RoleApplies(getRoleNames(member), roles[i])}
             IN  IF \E i \in app : contains(roles[i].AllowedModels, <<"*">>)
                 THEN Range(enabled)
                 ELSE {enabled[e] : e \in
                         {e \in 1..Len(enabled) :
                            \E i \in app : \E k \in 1..Len(roles[i].AllowedModels) :
                               matchesModelPattern(enabled[e], roles[i].AllowedModels[k])}}

-----------------------------------------------------------------------------
(* Conversation context: conversation.Manager's message list and            *)
(* ContextBuilder.Build.  A text is kept as the sequence of its tokens.      *)

MaxMessages == 3
MaxRequests == 3
MaxAdds == 5
MessageOverhead == 4

\* TokenCounter.Count: the number of tokens the encoder yields
Count(text) == Len(text)

ShortPrompt == <<"s">>
LongPrompt == <<"s", "t", "u", "v", "w">>
SystemPrompts == {ShortPrompt, LongPrompt}

\* conversation.Message values a handler stores
MessageChoices ==
    {[Role |-> "system", Content |-> ShortPrompt, Tokens |-> 5],
     [Role |-> "user", Content |-> <<"a", "b">>, Tokens |-> 0],
     [Role |-> "user", Content |-> <<"a">>, Tokens |-> 7],
     [Role |-> "assistant", Content |-> <<"c">>, Tokens |-> 5],
     [Role |-> "user", Content |-> <<"d">>, Tokens |-> 50]}

\* NewContextBuilder(maxTokens, reserveTokens)
BuilderChoices ==
    {[maxTokens |-> 30, reserveTokens |-> 10],
     [maxTokens |-> 14, reserveTokens |-> 5],
     [maxTokens |-> 8, reserveTokens |-> 5]}

\* The manager's ttl: how long the stored list lives after its last write
ConversationTTL == 3600

LTrim_KeepFirst(list, n) ==
    IF Len(list) <= n THEN list ELSE SubSeq(list, 1, n)

\* LTRIM key -n -1: the last n elements
LTrim(list, n) ==
    IF Len(list) <= n THEN list ELSE SubSeq(list, Len(list) - n + 1, Len(list))

Reverse(seq) == [i \in 1..Len(seq) |-> seq[Len(seq) + 1 - i]]

\* The tokens Build charges for a history message
MsgTokens(msg) ==
    IF msg.Tokens = 0 THEN Count(msg.Content) + MessageOverhead ELSE msg.Tokens

\* Mutant: a message that fills the budget exactly is refused.
Fits_Strict(totalTokens, msgTokens, availableTokens) ==
    totalTokens + msgTokens < availableTokens

Fits_IgnoreNew(totalTokens, msgTokens, availableTokens) ==
    ~(totalTokens > availableTokens)

\* The test that ends Build's loop, negated
Fits(totalTokens, msgTokens, availableTokens) ==
    ~(totalTokens + msgTokens > availableTokens)

\* A loop that passes over a message that does not fit and goes on to older ones.
RECURSIVE BuildLoop_Skip(_, _, _, _, _)
BuildLoop_Skip(messages, i, result, totalTokens, availableTokens) ==
    IF i = 0 THEN [result |-> result, totalTokens |-> totalTokens]
    ELSE IF ~Fits(totalTokens, MsgTokens(messages[i]), availableTokens)
    THEN BuildLoop_Skip(messages, i - 1, result, totalTokens, availableTokens)
    ELSE BuildLoop_Skip(messages, i - 1, Append(result, messages[i]),
                        totalTokens + MsgTokens(messages[i]), availableTokens)

\* Build's loop from index i down: result holds the system message and the
\* messages taken so far, newest first.
RECURSIVE BuildLoop(_, _, _, _, _)
BuildLoop(messages, i, result, totalTokens, availableTokens) ==
    IF i = 0 THEN [result |-> result, totalTokens |-> totalTokens]
    ELSE IF ~Fits(totalTokens, MsgTokens(messages[i]), availableTokens)
    THEN [result |-> result, totalTokens |-> totalTokens]
    ELSE BuildLoop(messages, i - 1, Append(result, messages[i]),
                   totalTokens + MsgTokens(messages[i]), availableTokens)

\* A Build that reports a budget too small for the system prompt as an error.
Build_BudgetError(cb, messages, systemPrompt) ==
    [messages |-> <<>>, total |-> 0, err |-> TRUE]

\* ContextBuilder.Build; TokenCounter.Count never returns an error, so neither
\* does Build.
Build(cb, messages, systemPrompt) ==
    LET availableTokens == cb.maxTokens - cb.reserveTokens
        systemTokens == Count(systemPrompt) + MessageOverhead
        system == [Role |-> "system", Content |-> systemPrompt, Tokens |-> systemTokens]
    IN  IF availableTokens - systemTokens <= 0
        THEN [messages |-> <<system>>, total |-> systemTokens, err |-> FALSE]
        ELSE LET r == BuildLoop(messages, Len(messages), <<system>>, systemTokens,
                                availableTokens)
             IN  [messages |-> <<system>> \o Reverse(Tail(r.result)),
                  total |-> r.totalTokens, err |-> FALSE]

WillFit_NoReserve(cb, currentTokens, newMessageTokens) ==
    currentTokens + newMessageTokens <= cb.maxTokens

\* ContextBuilder.WillFit
WillFit(cb, currentTokens, newMessageTokens) ==
    currentTokens + newMessageTokens + cb.reserveTokens <= cb.maxTokens

-----------------------------------------------------------------------------
(* Request handling: what handleAsk, handleThreadMessage and                *)
(* handleRegenerateButton compute on their way to the model.                 *)

ResponseReserve == 1000

\* Limiter.CheckRateLimit as one call: the keys, the script, the result.
CheckRateLimit(db, t, guildID, userID, limits) ==
    LET r == rateLimitScript(db, t, RateLimitMinute(guildID, userID),
                             RateLimitHour(guildID, userID),
                             limits.RequestsPerMinute, limits.RequestsPerHour,
                             MinuteTTL, HourTTL)
    IN  [db |-> r.db, res |-> RateLimitResult(r.reply)]

\* Limiter.CheckTokenLimit as one call: the bypass, the period key, the
\* script, the result.
CheckTokenLimit(db, t, guildID, userID, limit, tokensToAdd) ==
    IF limit.Bypass THEN [db |-> db, res |-> BypassResult]
    ELSE LET periodSeconds == limit.PeriodHours * SecondsPerHour
             key == TokenLimit(guildID, userID, PeriodStart(t, periodSeconds))
             r == tokenLimitScript(db, t, key, limit.TokensPerPeriod, periodSeconds,
                                   tokensToAdd)
         IN  [db |-> r.db, res |-> TokenLimitResult(r.reply)]

\* Bot.getRateLimitForMember / Bot.getTokenLimitForMember: the limit of the
\* first role policy that applies to the member and has an entry in the
\* limits' Roles map, or else the default.
LimitForMember(limits, guildCfg, roles) ==
    LET rs == guildCfg.RBAC.Roles
        hits == {i \in 1..Len(rs) :
                   /\ contains(roles, rs[i].DiscordRole) \/ rs[i].DiscordRole = "@everyone"
                   /\ rs[i].DiscordRole \in DOMAIN limits.Roles}
    IN  IF hits = {} THEN limits.Default
        ELSE limits.Roles[rs[CHOOSE i \in hits : \A j \in hits : i <= j].DiscordRole]
getRateLimitForMember(guildCfg, roles) == LimitForMember(guildCfg.RateLimits, guildCfg, roles)
getTokenLimitForMember(guildCfg, roles) == LimitForMember(guildCfg.TokenLimits, guildCfg, roles)

\* Two configurations a reload switches between.  In both, "Admin" holds
\* unlimited_rate and unlimited_tokens and has no entry of its own in the
\* limits; they differ in what "Member" may use and in the context size.
AdminPolicy ==
    [DiscordRole |-> "Admin",
     Permissions |-> <<"use_models", "unlimited_rate", "unlimited_tokens">>,
     AllowedModels |-> <<PatternAll>>]
MemberPolicy(allowed) ==
    [DiscordRole |-> "Member", Permissions |-> <<"use_models">>,
     AllowedModels |-> allowed]
RequestGuild(memberModels, memberRate, maxContextTokens) ==
    [ID |-> Guild, EnabledModels |-> <<ModelPX, ModelPY>>,
     RBAC |-> [Roles |-> <<AdminPolicy, MemberPolicy(memberModels)>>],
     RateLimits |-> [Default |-> [RequestsPerMinute |-> 2, RequestsPerHour |-> 3],
                     Roles |-> [r \in {"Member"} |-> memberRate]],
     TokenLimits |->
         [Default |-> PlainTokenLimits.Default,
          Roles |-> [r \in {"Member"} |->
                       [Bypass |-> FALSE, TokensPerPeriod |-> 5000, PeriodHours |-> 1]]],
     MaxContextTokens |-> maxContextTokens]
ConfigA ==
    [Guilds |-> <<RequestGuild(<<ModelPX>>,
                               [RequestsPerMinute |-> 0, RequestsPerHour |-> 0], 1020)>>]
ConfigB ==
    [Guilds |-> <<RequestGuild(<<PatternP>>,
                               [RequestsPerMinute |-> 2, RequestsPerHour |-> 0], 3000)>>]
RequestConfigs == {ConfigA, ConfigB}

Paths == {"ask", "thread", "regenerate"}
RequestRoles == {<<"Member">>, <<"Admin">>}
RequestModels == {ModelPX, ModelPY}
PromptText == <<"a">>
\* response.Usage of a successful Chat
UsageChoices ==
    {[CompletionTokens |-> 40, TotalTokens |-> 60],
     [CompletionTokens |-> 1200, TotalTokens |-> 1300]}

\* sum of msg.Tokens over the messages
RECURSIVE TokensField(_)
TokensField(seq) ==
    IF seq = <<>> THEN 0 ELSE Head(seq).Tokens + TokensField(Tail(seq))

\* handleRegenerateButton: the history without a trailing assistant message
DropLastAssistant(messages) ==
    IF Len(messages) > 0 /\ messages[Len(messages)].Role = "assistant"
    THEN SubSeq(messages, 1, Len(messages) - 1)
    ELSE messages

-----------------------------------------------------------------------------
(* State machine *)

NoArg == [op |-> "none"]
NoEvent == [op |-> "none"]
NoLimits == [op |-> "none"]
NoReload == [pc |-> "idle"]
NoRequest == [pc |-> "idle"]
NoConv == [exists |-> FALSE]
Mixed == [op |-> "mixed"]

\* The limits passed so far, after one more call passes `limits`.
Used(sofar, limits) ==
    IF sofar = NoLimits \/ sofar = limits THEN limits ELSE Mixed

Init ==
    /\ now = 0
    /\ store = [k \in AllKeys |-> Nil]
    /\ pc = [p \in Procs |-> "idle"]
    /\ arg = [p \in Procs |-> NoArg]
    /\ ev = NoEvent
    /\ calls = 0
    /\ rateSeq = 0
    /\ firstAt = -1
    /\ rateUsed = NoLimits
    /\ tokenUsed = NoLimits
    /\ admitted = [s \in PeriodStarts |-> 0]
    /\ config = InitialConfig
    /\ history = <<>>
    /\ bot = [config |-> InitialConfig, registry |-> InitialConfig]
    /\ reload = NoReload
    /\ req = NoRequest
    /\ conv = NoConv
    /\ historyExp = NoExpiry
    /\ added = [all |-> <<>>, live |-> <<>>]
    /\ encoders = {}

\* Time passes; expired keys disappear.
Tick ==
    /\ \E t \in Instants : t > now /\ now' = t
    /\ store' = Purge(store, now')
    /\ IF historyExp # NoExpiry /\ historyExp <= now'
       THEN /\ history' = <<>>
            /\ historyExp' = NoExpiry
            /\ added' = [added EXCEPT !.live = <<>>]
       ELSE UNCHANGED <<history, historyExp, added>>
    /\ ev' = NoEvent
    /\ UNCHANGED <<pc, arg, calls, rateSeq, firstAt, rateUsed, tokenUsed,
                   admitted, config, bot, reload, req, conv, encoders>>

\* A handler calls CheckRateLimit(ctx, guildID, userID, limits): the keys are
\* built and the script is sent.
CallRate(p, u, limits) ==
    /\ pc[p] = "idle"
    /\ calls < MaxCalls
    /\ calls' = calls + 1
    /\ pc' = [pc EXCEPT ![p] = "rate"]
    /\ arg' = [arg EXCEPT ![p] =
                 [op |-> "rate", user |-> u, limits |-> limits,
                  minuteKey |-> RateLimitMinute(Guild, u),
                  hourKey |-> RateLimitHour(Guild, u)]]
    /\ rateUsed' = Used(rateUsed, limits)
    /\ ev' = NoEvent
    /\ UNCHANGED <<now, store, rateSeq, firstAt, tokenUsed, admitted, config,
                   history, bot, reload, req, conv,
                   historyExp, added, encoders>>

\* The store runs rateLimitScript and CheckRateLimit returns its result.
EvalRate(p) ==
    /\ pc[p] = "rate"
    /\ LET a == arg[p]
           r == rateLimitScript(store, now, a.minuteKey, a.hourKey,
                                a.limits.RequestsPerMinute, a.limits.RequestsPerHour,
                                MinuteTTL, HourTTL)
       IN  /\ store' = r.db
           /\ ev' = [op |-> "rate", user |-> a.user, limits |-> a.limits,
                     minuteKey |-> a.minuteKey, hourKey |-> a.hourKey,
                     before |-> store, after |-> r.db,
                     res |-> RateLimitResult(r.reply)]
    /\ rateSeq' = rateSeq + 1
    /\ firstAt' = IF firstAt = -1 THEN now ELSE firstAt
    /\ pc' = [pc EXCEPT ![p] = "idle"]
    /\ arg' = [arg EXCEPT ![p] = NoArg]
    /\ UNCHANGED <<now, calls, rateUsed, tokenUsed, admitted, config, history,
                   bot, reload, req, conv,
                   historyExp, added, encoders>>

NextRate ==
    \/ Tick
    \/ \E p \in Procs, u \in Users, l \in RateLimitChoices : CallRate(p, u, l)
    \/ \E p \in Procs : EvalRate(p)

SpecRate == Init /\ [][NextRate]_vars

-----------------------------------------------------------------------------
(* CheckTokenLimit *)

\* Mutant: the bypass branch still records the tokens in the period's counter.
CheckTokenLimitBypass_Metered(p, u, limit, tokensToAdd) ==
    /\ pc[p] = "idle"
    /\ calls < MaxCalls
    /\ limit.Bypass
    /\ calls' = calls + 1
    /\ tokenUsed' = Used(tokenUsed, limit)
    /\ LET key == TokenLimit(Guild, u, PeriodStart(now, SecondsPerHour))
           used == GET(store, key, now)
           db1 == IF used = 0 THEN SETEX(store, key, tokensToAdd, SecondsPerHour, now)
                              ELSE INCRBY(store, key, tokensToAdd, now)
       IN  /\ store' = db1
           /\ ev' = [op |-> "token", user |-> u, limit |-> limit, n |-> tokensToAdd,
                     key |-> key, before |-> store, after |-> db1,
                     res |-> [BypassResult EXCEPT !.TokensUsed = used + tokensToAdd]]
    /\ UNCHANGED <<now, pc, arg, rateSeq, firstAt, rateUsed, admitted, config,
                   history, bot, reload, req, conv,
                   historyExp, added, encoders>>

\* limit.Bypass: CheckTokenLimit returns at once, without the clock or the store.
CheckTokenLimitBypass(p, u, limit, tokensToAdd) ==
    /\ pc[p] = "idle"
    /\ calls < MaxCalls
    /\ limit.Bypass
    /\ calls' = calls + 1
    /\ tokenUsed' = Used(tokenUsed, limit)
    /\ ev' = [op |-> "token", user |-> u, limit |-> limit, n |-> tokensToAdd,
              key |-> <<>>, before |-> store, after |-> store, res |-> BypassResult]
    /\ UNCHANGED <<now, store, pc, arg, rateSeq, firstAt, rateUsed, admitted,
                   config, history, bot, reload, req, conv,
                   historyExp, added, encoders>>

\* Otherwise the period key is built from the clock and the script is sent.
CallToken(p, u, limit, tokensToAdd) ==
    /\ pc[p] = "idle"
    /\ calls < MaxCalls
    /\ ~limit.Bypass
    /\ calls' = calls + 1
    /\ tokenUsed' = Used(tokenUsed, limit)
    /\ LET periodSeconds == limit.PeriodHours * SecondsPerHour
           periodStart == PeriodStart(now, periodSeconds)
       IN  arg' = [arg EXCEPT ![p] =
                     [op |-> "token", user |-> u, limit |-> limit, n |-> tokensToAdd,
                      periodStart |-> periodStart, periodSeconds |-> periodSeconds,
                      key |-> TokenLimit(Guild, u, periodStart)]]
    /\ pc' = [pc EXCEPT ![p] = "token"]
    /\ ev' = NoEvent
    /\ UNCHANGED <<now, store, rateSeq, firstAt, rateUsed, admitted, config,
                   history, bot, reload, req, conv,
                   historyExp, added, encoders>>

\* The store runs tokenLimitScript and CheckTokenLimit returns its result.
EvalToken(p) ==
    /\ pc[p] = "token"
    /\ LET a == arg[p]
           r == tokenLimitScript(store, now, a.key, a.limit.TokensPerPeriod,
                                 a.periodSeconds, a.n)
           res == TokenLimitResult(r.reply)
       IN  /\ store' = r.db
           /\ ev' = [op |-> "token", user |-> a.user, limit |-> a.limit, n |-> a.n,
                     key |-> a.key, before |-> store, after |-> r.db, res |-> res]
           /\ admitted' = IF res.Allowed
                          THEN [admitted EXCEPT ![a.periodStart] = @ + a.n]
                          ELSE admitted
    /\ pc' = [pc EXCEPT ![p] = "idle"]
    /\ arg' = [arg EXCEPT ![p] = NoArg]
    /\ UNCHANGED <<now, calls, rateSeq, firstAt, rateUsed, tokenUsed, config,
                   history, bot, reload, req, conv,
                   historyExp, added, encoders>>

NextToken ==
    \/ Tick
    \/ \E p \in Procs, u \in Users, l \in TokenLimitChoices, n \in TokenAmounts :
          CheckTokenLimitBypass(p, u, l, n)
    \/ \E p \in Procs, u \in Users, l \in TokenLimitChoices, n \in TokenAmounts :
          CallToken(p, u, l, n)
    \/ \E p \in Procs : EvalToken(p)

SpecToken == Init /\ [][NextToken]_vars

-----------------------------------------------------------------------------
(* Readings of the last finished call *)

RateEvent == ev.op = "rate"
TokenEvent == ev.op = "token"

\* The counters the script read and the ones it left.
MinuteBefore == GET(ev.before, ev.minuteKey, now)
HourBefore == GET(ev.before, ev.hourKey, now)
MinuteAfter == GET(ev.after, ev.minuteKey, now)
HourAfter == GET(ev.after, ev.hourKey, now)
UsedBefore == GET(ev.before, ev.key, now)
UsedAfter == GET(ev.after, ev.key, now)

\* Every rate (token) call so far was made with the same limits.
RateFixed == rateUsed # NoLimits /\ rateUsed # Mixed
TokenFixed == tokenUsed # NoLimits /\ tokenUsed # Mixed

-----------------------------------------------------------------------------
C2_CountersWithinLimits ==
    (RateFixed /\ rateUsed.RequestsPerMinute > 0 /\ rateUsed.RequestsPerHour > 0) =>
        \A u \in Users :
            /\ GET(store, RateLimitMinute(Guild, u), now) <= rateUsed.RequestsPerMinute
            /\ GET(store, RateLimitHour(Guild, u), now) <= rateUsed.RequestsPerHour

\* A call has just been denied with both counters at their limits.
C2_Witness ==
    /\ RateFixed /\ RateEvent /\ ~ev.res.Allowed
    /\ rateUsed.RequestsPerMinute > 0 /\ rateUsed.RequestsPerHour > 0
    /\ GET(store, ev.minuteKey, now) = rateUsed.RequestsPerMinute
    /\ GET(store, ev.hourKey, now) = rateUsed.RequestsPerHour

\* The checks so far all fell in the window the first check opened.
InFirstMinute == firstAt >= 0 /\ now < firstAt + MinuteTTL
InFirstHour == firstAt >= 0 /\ now < firstAt + HourTTL

\* In a window of limit L the k-th check passes for k <= L and the (L+1)-th is
\* denied with a positive SecondsToReset.
WindowLaw(L, k) ==
    /\ k <= L => ev.res.Allowed
    /\ k = L + 1 => (~ev.res.Allowed /\ ev.res.SecondsToReset > 0)

(* C3: with fixed limits on fresh keys and all checks inside one window, the *)
(* k-th CheckRateLimit is allowed for k <= L and the (L+1)-th is denied with *)
(* SecondsToReset > 0; a window whose limit is 0 never causes a denial.      *)
C3_FirstLAllowedThenDenied ==
    (RateEvent /\ RateFixed) =>
        LET Lm == rateUsed.RequestsPerMinute
            Lh == rateUsed.RequestsPerHour
        IN  /\ (Lm > 0 /\ (Lh = 0 \/ Lh >= Lm) /\ InFirstMinute) => WindowLaw(Lm, rateSeq)
            /\ (Lh > 0 /\ Lm = 0 /\ InFirstHour) => WindowLaw(Lh, rateSeq)
            /\ (Lm = 0 /\ Lh = 0) => ev.res.Allowed
            /\ ev.res.err = ""
            /\ (~ev.res.Allowed /\ ev.res.LimitType = "minute") => Lm > 0
            /\ (~ev.res.Allowed /\ ev.res.LimitType = "hour") => Lh > 0

\* Limit 3 per minute: the fourth check of the window has just been denied.
C3_Witness ==
    /\ RateEvent /\ RateFixed /\ InFirstMinute
    /\ rateUsed.RequestsPerMinute = 3
    /\ rateSeq = 4
    /\ ~ev.res.Allowed /\ ev.res.LimitType = "minute" /\ ev.res.SecondsToReset > 0

(* C4: a CheckRateLimit made with RequestsPerMinute = 0 (RequestsPerHour = 0) *)
(* neither creates nor changes the minute (hour) counter.                    *)
C4_UnlimitedWindowUntouched ==
    RateEvent =>
        /\ ev.limits.RequestsPerMinute = 0
              => ev.after[ev.minuteKey] = ev.before[ev.minuteKey]
        /\ ev.limits.RequestsPerHour = 0
              => ev.after[ev.hourKey] = ev.before[ev.hourKey]

(* C5: the minute window is evaluated first: a minute counter at or above a  *)
(* non-zero minute limit gives a denial of type "minute" with the minute     *)
(* key's remaining time, whatever the hour counter holds; type "hour" is     *)
(* reported only when the minute window passes and the hour counter is at or *)
(* above a non-zero hour limit.                                             *)
C5_MinuteWindowFirst ==
    RateEvent =>
        LET Lm == ev.limits.RequestsPerMinute
            Lh == ev.limits.RequestsPerHour
            minuteFull == Lm > 0 /\ MinuteBefore >= Lm
        IN  /\ minuteFull =>
                  /\ ~ev.res.Allowed
                  /\ ev.res.LimitType = "minute"
                  /\ ev.res.SecondsToReset = ev.before[ev.minuteKey].exp - now
            /\ (~ev.res.Allowed /\ ev.res.LimitType = "hour") =>
                  /\ ~minuteFull
                  /\ Lh > 0 /\ HourBefore >= Lh
                  /\ ev.res.SecondsToReset = ev.before[ev.hourKey].exp - now

\* Both windows were full and the denial names the minute window.
C5_Witness ==
    /\ RateEvent
    /\ ev.limits.RequestsPerMinute > 0 /\ MinuteBefore >= ev.limits.RequestsPerMinute
    /\ ev.limits.RequestsPerHour > 0 /\ HourBefore >= ev.limits.RequestsPerHour
    /\ ev.res.LimitType = "minute"

(* C6: a denied CheckRateLimit, by either window, leaves the minute counter, *)
(* the hour counter and their expiries unchanged.                           *)
C6_DeniedChangesNothing ==
    (RateEvent /\ ~ev.res.Allowed) => (ev.after = ev.before /\ store = ev.before)

\* A denial by the hour window of a call whose minute window had room.
C6_Witness ==
    /\ RateEvent /\ ~ev.res.Allowed /\ ev.res.LimitType = "hour"
    /\ ev.limits.RequestsPerMinute > 0
    /\ store[ev.minuteKey] = Nil

\* The stored counters of a user, as any caller reads them.
MinuteCount(u) == GET(store, RateLimitMinute(Guild, u), now)
HourCount(u) == GET(store, RateLimitHour(Guild, u), now)

(* C7: an allowed CheckRateLimit raises the minute and the hour counter by   *)
(* exactly 1 each in one step; no step that leaves the clock alone changes   *)
(* one counter without the other.                                           *)
C7_BothOrNeither ==
    [][now' = now =>
         \A u \in Users :
            IF rateSeq' = rateSeq + 1 /\ ev'.res.Allowed /\ ev'.user = u
            THEN MinuteCount(u)' = MinuteCount(u) + 1 /\ HourCount(u)' = HourCount(u) + 1
            ELSE MinuteCount(u)' = MinuteCount(u) /\ HourCount(u)' = HourCount(u)]_vars

\* A call has just been allowed while another call on the same keys is in flight.
C7_Witness ==
    /\ RateEvent /\ ev.res.Allowed
    /\ MinuteAfter = MinuteBefore + 1 /\ HourAfter = HourBefore + 1
    /\ \E p \in Procs : pc[p] = "rate" /\ arg[p].minuteKey = ev.minuteKey

(* C8: for a token limit T > 0 without bypass, a call requesting n tokens is *)
(* allowed exactly when stored usage + n <= T; an allowed call raises the    *)
(* stored usage by exactly n and reports TokensUsed = new usage and          *)
(* TokensRemaining = T - new usage.                                          *)
C8_AllowedIffFits ==
    (TokenEvent /\ ~ev.limit.Bypass /\ ev.limit.TokensPerPeriod > 0) =>
        LET T == ev.limit.TokensPerPeriod
        IN  /\ ev.res.Allowed <=> (UsedBefore + ev.n <= T)
            /\ ev.res.Allowed =>
                  /\ UsedAfter = UsedBefore + ev.n
                  /\ store = ev.after
                  /\ ev.res.TokensUsed = UsedAfter
                  /\ ev.res.TokensRemaining = T - UsedAfter

\* A call that reaches the limit exactly has just been allowed.
C8_Witness ==
    /\ TokenEvent /\ ~ev.limit.Bypass /\ ev.limit.TokensPerPeriod > 0
    /\ ev.res.Allowed /\ ev.n > 0 /\ UsedBefore > 0
    /\ UsedAfter = ev.limit.TokensPerPeriod

(* C9: a CheckTokenLimit whose request would push usage above the limit is   *)
(* denied, leaves the stored usage unchanged and reports TokensUsed =        *)
(* current usage and TokensRemaining = limit - current usage.                *)
C9_DeniedLeavesUsage ==
    (TokenEvent /\ ~ev.limit.Bypass /\ ev.limit.TokensPerPeriod > 0
       /\ UsedBefore + ev.n > ev.limit.TokensPerPeriod) =>
        /\ ~ev.res.Allowed
        /\ ev.after = ev.before /\ store = ev.before
        /\ ev.res.TokensUsed = UsedBefore
        /\ ev.res.TokensRemaining = ev.limit.TokensPerPeriod - UsedBefore

\* Limit 100 after 30 and 50: a request of 30 has just been denied with used 80
\* and remaining 20, and the stored usage is still 80.
C9_Witness ==
    /\ TokenEvent /\ ~ev.res.Allowed
    /\ ev.limit.TokensPerPeriod = 100 /\ ev.n = 30
    /\ ev.res.TokensUsed = 80 /\ ev.res.TokensRemaining = 20
    /\ GET(store, ev.key, now) = 80
    /\ \E s \in PeriodStarts : admitted[s] = 80

(* C10: with Bypass set CheckTokenLimit returns allowed with TokensUsed = 0  *)
(* for any requested amount and any prior usage, and changes no stored       *)
(* counter.                                                                 *)
C10_BypassAlwaysAllows ==
    (TokenEvent /\ ev.limit.Bypass) =>
        /\ ev.res.err = ""
        /\ ev.res.Allowed
        /\ ev.res.TokensUsed = 0
        /\ ev.after = ev.before /\ store = ev.before

\* A bypass call asking for more than the budget that a metered caller of the
\* same user has already used up.
C10_Witness ==
    /\ TokenEvent /\ ev.limit.Bypass /\ ev.res.Allowed
    /\ ev.n > 0
    /\ \E u \in Users, s \in PeriodStarts :
          /\ u = ev.user
          /\ GET(store, TokenLimit(Guild, u, s), now) = 100

-----------------------------------------------------------------------------
\* The period of the key a token call ran on, and that period's length.
EvPeriodStart == ev.key[4]
EvPeriodSeconds == ev.limit.PeriodHours * SecondsPerHour

\* A token call that went to the store, under a limit T > 0.
MeteredEvent == TokenEvent /\ ~ev.limit.Bypass /\ ev.limit.TokensPerPeriod > 0

(* C11: when CheckTokenLimit denies, SecondsToReset is the time left until   *)
(* the period's epoch boundary, the next multiple of PeriodHours*3600.       *)
C11_SecondsToEpochBoundary ==
    (MeteredEvent /\ ~ev.res.Allowed /\ now < EvPeriodStart + EvPeriodSeconds) =>
        ev.res.SecondsToReset = EvPeriodStart + EvPeriodSeconds - now

(* C12: token usage resets at period boundaries: a CheckTokenLimit on a      *)
(* period on whose key nothing was admitted yet reads usage 0 and is decided *)
(* on its own amount, whatever counters of other periods the store holds.    *)
C12_FreshPeriodStartsAtZero ==
    (MeteredEvent /\ now >= EvPeriodStart
       /\ admitted[EvPeriodStart] = (IF ev.res.Allowed THEN ev.n ELSE 0)) =>
        /\ UsedBefore = 0
        /\ ev.res.Allowed <=> ev.n <= ev.limit.TokensPerPeriod
        /\ ev.res.Allowed => ev.res.TokensUsed = ev.n
        /\ \A u \in Users, s \in PeriodStarts :
              s # EvPeriodStart =>
                  ev.after[TokenLimit(Guild, u, s)] = ev.before[TokenLimit(Guild, u, s)]

\* The first call after the boundary is admitted from zero while the previous
\* period's counter, used up, is still in the store.
C12_Witness ==
    /\ MeteredEvent /\ ev.res.Allowed /\ ev.n > 0
    /\ EvPeriodStart = SecondsPerHour
    /\ UsedBefore = 0 /\ ev.res.TokensUsed = ev.n
    /\ GET(store, TokenLimit(Guild, ev.user, 0), now) = 100

\* The time at which the counter a key holds was created.
OpenedAt(db, k, seconds) == db[k].exp - seconds

WindowStep(k, cur, seconds) ==
    IF cur = 0
    THEN ev.after[k] = [val |-> 1, exp |-> now + seconds]
    ELSE ev.after[k] = [val |-> cur + 1, exp |-> ev.before[k].exp]

-----------------------------------------------------------------------------
(* The store call fails, or hands back something that is not the script's    *)
(* reply.                                                                    *)

StoreError == [err |-> TRUE, list |-> FALSE, values |-> <<>>]
NotAList == [err |-> FALSE, list |-> FALSE, values |-> <<>>]
Malformed(values) == [err |-> FALSE, list |-> TRUE, values |-> values]

BadRateReplies ==
    {StoreError, NotAList,
     Malformed(<<Int64(1)>>),
     Malformed(<<Int64(1), Int64(0), Int64(0)>>),
     Malformed(<<NotInt64, Int64(0)>>),
     Malformed(<<Int64(1), NotInt64>>),
     Malformed(<<Int64(-1), NotInt64>>),
     Malformed(<<Int64(0), Int64(0)>>),
     Malformed(<<Int64(2), Int64(0)>>)}

BadTokenReplies ==
    {StoreError, NotAList,
     Malformed(<<Int64(1), Int64(0)>>),
     Malformed(<<NotInt64, Int64(0), Int64(0), Int64(0)>>),
     Malformed(<<Int64(1), NotInt64, Int64(0), Int64(0)>>),
     Malformed(<<Int64(0), Int64(0), Int64(0), Int64(0)>>),
     Malformed(<<Int64(2), Int64(0), Int64(0), Int64(0)>>)}

\* CheckRateLimit when EvalSha fails or its value is not the script's reply.
FaultRate(p, w) ==
    /\ pc[p] = "rate"
    /\ ev' = [op |-> "rate_fault", user |-> arg[p].user, wire |-> w,
              before |-> store, after |-> store, res |-> CheckRateLimitReturn(w)]
    /\ pc' = [pc EXCEPT ![p] = "idle"]
    /\ arg' = [arg EXCEPT ![p] = NoArg]
    /\ UNCHANGED <<now, store, calls, rateSeq, firstAt, rateUsed, tokenUsed,
                   admitted, config, history, bot, reload, req, conv,
                   historyExp, added, encoders>>

\* CheckTokenLimit when EvalSha fails or its value is not the script's reply.
FaultToken(p, w) ==
    /\ pc[p] = "token"
    /\ ev' = [op |-> "token_fault", user |-> arg[p].user, wire |-> w,
              before |-> store, after |-> store, res |-> CheckTokenLimitReturn(w)]
    /\ pc' = [pc EXCEPT ![p] = "idle"]
    /\ arg' = [arg EXCEPT ![p] = NoArg]
    /\ UNCHANGED <<now, store, calls, rateSeq, firstAt, rateUsed, tokenUsed,
                   admitted, config, history, bot, reload, req, conv,
                   historyExp, added, encoders>>

NextFault ==
    \/ Tick
    \/ \E p \in Procs, u \in Users, l \in RateLimitChoices : CallRate(p, u, l)
    \/ \E p \in Procs, u \in Users, l \in TokenLimitChoices, n \in TokenAmounts :
          CallToken(p, u, l, n)
    \/ \E p \in Procs, w \in BadRateReplies : FaultRate(p, w)
    \/ \E p \in Procs, w \in BadTokenReplies : FaultToken(p, w)

SpecFault == Init /\ [][NextFault]_vars

FaultEvent == ev.op = "rate_fault" \/ ev.op = "token_fault"

(* C14: when the store call fails or returns something that is not the       *)
(* expected tuple of integers, CheckRateLimit and CheckTokenLimit return an  *)
(* error, never an allowed or a denied result.                               *)
C14_FaultGivesError ==
    FaultEvent => ev.res.err # ""

-----------------------------------------------------------------------------
(* The rbac Manager: the configuration is replaced by Reload, and queried.   *)

\* Manager.Reload
Reload(cfg) ==
    /\ config' = cfg
    /\ ev' = NoEvent
    /\ UNCHANGED <<now, store, pc, arg, calls, rateSeq, firstAt, rateUsed, tokenUsed,
                   admitted, history, bot, reload, req, conv,
                   historyExp, added, encoders>>

RbacUnchanged ==
    UNCHANGED <<now, store, pc, arg, calls, rateSeq, firstAt, rateUsed, tokenUsed,
                admitted, config, history, bot, reload, req, conv,
                historyExp, added, encoders>>

CallHasPermission(guildID, member, perm) ==
    /\ ev' = [op |-> "HasPermission", guild |-> guildID, roles |-> member,
              perm |-> perm, res |-> HasPermission(config, guildID, member, perm)]
    /\ RbacUnchanged

CallCanUseModel(guildID, member, modelRef) ==
    /\ ev' = [op |-> "CanUseModel", guild |-> guildID, roles |-> member,
              modelRef |-> modelRef,
              res |-> CanUseModel(config, guildID, member, modelRef)]
    /\ RbacUnchanged

CallGetAllowedModels(guildID, member) ==
    /\ ev' = [op |-> "GetAllowedModels", guild |-> guildID, roles |-> member,
              res |-> GetAllowedModels(config, guildID, member)]
    /\ RbacUnchanged

CallMatchesModelPattern(modelRef, pattern) ==
    /\ ev' = [op |-> "matchesModelPattern", modelRef |-> modelRef,
              pattern |-> pattern, res |-> matchesModelPattern(modelRef, pattern)]
    /\ RbacUnchanged

NextRbac ==
    \/ \E cfg \in ConfigChoices : Reload(cfg)
    \/ \E g \in GuildIDs, m \in MemberRoles, p \in Permissions : CallHasPermission(g, m, p)
    \/ \E g \in GuildIDs, m \in MemberRoles, r \in ModelRefs : CallCanUseModel(g, m, r)
    \/ \E g \in GuildIDs, m \in MemberRoles : CallGetAllowedModels(g, m)
    \/ \E r \in ModelRefs, pt \in Patterns : CallMatchesModelPattern(r, pt)

SpecRbac == Init /\ [][NextRbac]_vars

\* The role policies of the queried guild that apply to the queried member.
KnownGuild(g) == \E i \in 1..Len(config.Guilds) : config.Guilds[i].ID = g
TheGuild(g) == config.Guilds[CHOOSE i \in 1..Len(config.Guilds) : config.Guilds[i].ID = g]
PoliciesOf(g, roles) ==
    IF ~KnownGuild(g) THEN {}
    ELSE {rc \in Range(TheGuild(g).RBAC.Roles) :
            rc.DiscordRole \in Range(roles) \/ rc.DiscordRole = Everyone}

(* C15: HasPermission(guild, member, p) is true exactly when some role       *)
(* policy of the guild whose role the member holds, or whose role is         *)
(* "@everyone", lists p; several roles give the union of their grants, and   *)
(* an unknown guild or a member matching no policy has no permission.        *)
C15_PermissionIsUnion ==
    ev.op = "HasPermission" =>
        /\ ev.res <=> \E rc \in PoliciesOf(ev.guild, ev.roles) :
                         ev.perm \in Range(rc.Permissions)
        /\ (~KnownGuild(ev.guild) \/ PoliciesOf(ev.guild, ev.roles) = {}) => ~ev.res

\* A permission that only the second of two applying policies grants.
C15_Witness ==
    /\ ev.op = "HasPermission" /\ ev.res /\ ev.roles = <<"Admin", "Member">>
    /\ Len(TheGuild(Guild).RBAC.Roles) = 2
    /\ TheGuild(Guild).RBAC.Roles[1].DiscordRole = "Admin"
    /\ TheGuild(Guild).RBAC.Roles[2].DiscordRole = "Member"
    /\ ev.perm \notin Range(TheGuild(Guild).RBAC.Roles[1].Permissions)

\* s begins with the characters of `start`.
BeginsWith(s, start) ==
    /\ Len(start) <= Len(s)
    /\ \A i \in 1..Len(start) : s[i] = start[i]

\* pattern is "ns/*" for the namespace ns
NamespacePattern(pattern, ns) == pattern = ns \o <<"/", "*">>
Namespaces(pattern) == {SubSeq(pattern, 1, k) : k \in 0..Len(pattern)}

(* C16: matchesModelPattern(ref, pattern) is true exactly when pattern is    *)
(* "*", or pattern equals ref, or pattern is "ns/*" and ref begins with      *)
(* "ns/"; "p/*" matches "p/x" and "p/y" but neither "q/x" nor "px/y".        *)
C16_PatternMatch ==
    ev.op = "matchesModelPattern" =>
        /\ ev.res <=>
              \/ ev.pattern = PatternAll
              \/ ev.pattern = ev.modelRef
              \/ \E ns \in Namespaces(ev.pattern) :
                    /\ NamespacePattern(ev.pattern, ns)
                    /\ BeginsWith(ev.modelRef, ns \o <<"/">>)
        /\ (ev.pattern = PatternP /\ ev.modelRef \in {ModelPX, ModelPY}) => ev.res
        /\ (ev.pattern = PatternP /\ ev.modelRef \in {ModelQX, ModelPXY}) => ~ev.res

C16_Witness ==
    ev.op = "matchesModelPattern" /\ ev.pattern = PatternP /\ ev.modelRef = ModelPXY
        /\ ~ev.res

\* The patterns of the policies that apply to the queried member.
PatternsOf(g, roles) ==
    UNION {Range(rc.AllowedModels) : rc \in PoliciesOf(g, roles)}
EnabledOf(g) == IF KnownGuild(g) THEN Range(TheGuild(g).EnabledModels) ELSE {}

(* C17: GetAllowedModels returns only models in the guild's EnabledModels:   *)
(* exactly the enabled models matched by a pattern of a role the member      *)
(* holds or of "@everyone", all enabled models when any such pattern is      *)
(* "*", and nothing for an unknown guild.                                    *)
C17_AllowedWithinEnabled ==
    ev.op = "GetAllowedModels" =>
        /\ ev.res \subseteq EnabledOf(ev.guild)
        /\ ev.res = {m \in EnabledOf(ev.guild) :
                        \E pt \in PatternsOf(ev.guild, ev.roles) :
                           matchesModelPattern(m, pt)}
        /\ PatternAll \in PatternsOf(ev.guild, ev.roles) => ev.res = EnabledOf(ev.guild)
        /\ ~KnownGuild(ev.guild) => ev.res = {}

\* A policy allows "q/x" and "p/*" where "q/x" is not enabled: the result
\* holds the enabled "p/..." models and not "q/x".
C17_Witness ==
    /\ ev.op = "GetAllowedModels" /\ ev.guild = Guild
    /\ ModelQX \in PatternsOf(ev.guild, ev.roles)
    /\ PatternAll \notin PatternsOf(ev.guild, ev.roles)
    /\ ModelQX \notin EnabledOf(ev.guild)
    /\ ev.res = {ModelPX, ModelPY}

(* C18: CanUseModel(guild, member, ref) is true exactly when ref is an       *)
(* element of GetAllowedModels(guild, member); in particular it is false     *)
(* for a model the guild has not enabled.                                    *)
C18_CanUseIffAllowed ==
    ev.op = "CanUseModel" =>
        /\ ev.res <=> ev.modelRef \in GetAllowedModels(config, ev.guild, ev.roles)
        /\ ev.modelRef \notin EnabledOf(ev.guild) => ~ev.res

-----------------------------------------------------------------------------
(* A conversation: messages are stored, and a context is built from them.    *)

\* Manager.AddMessage's pipeline: RPush, LTrim to the newest maxMessages,
\* Expire with the manager's ttl
StoreMessage(msg) ==
    /\ history' = LTrim(Append(history, msg), MaxMessages)
    /\ historyExp' = now + ConversationTTL

\* Manager.AddMessage, called while a context is being prepared
AddMessage(msg) ==
    /\ StoreMessage(msg)
    /\ ev' = NoEvent
    /\ UNCHANGED <<now, store, pc, arg, calls, rateSeq, firstAt, rateUsed, tokenUsed,
                   admitted, config, bot, reload, req, conv, added, encoders>>

\* A handler builds the context from the stored messages.
CallBuild(cb, systemPrompt) ==
    /\ ev' = [op |-> "Build", cb |-> cb, messages |-> history,
              systemPrompt |-> systemPrompt, res |-> Build(cb, history, systemPrompt)]
    /\ UNCHANGED <<now, store, pc, arg, calls, rateSeq, firstAt, rateUsed, tokenUsed,
                   admitted, config, history, bot, reload, req, conv,
                   historyExp, added, encoders>>

\* Running totals and message costs a caller may ask WillFit about.
RunningTotals == {0, 5, 9, 14, 15, 20}
CandidateCosts == {MsgTokens(m) : m \in MessageChoices} \cup {0}

CallWillFit(cb, currentTokens, newMessageTokens) ==
    /\ ev' = [op |-> "WillFit", cb |-> cb, current |-> currentTokens,
              candidate |-> newMessageTokens,
              res |-> WillFit(cb, currentTokens, newMessageTokens)]
    /\ UNCHANGED <<now, store, pc, arg, calls, rateSeq, firstAt, rateUsed, tokenUsed,
                   admitted, config, history, bot, reload, req, conv,
                   historyExp, added, encoders>>

NextContext ==
    \/ \E msg \in MessageChoices : AddMessage(msg)
    \/ \E cb \in BuilderChoices, sp \in SystemPrompts : CallBuild(cb, sp)
    \/ \E cb \in BuilderChoices, c \in RunningTotals, n \in CandidateCosts :
          CallWillFit(cb, c, n)

SpecContext == Init /\ [][NextContext]_vars

BuildEvent == ev.op = "Build"
Available == ev.cb.maxTokens - ev.cb.reserveTokens
SystemCost == Count(ev.systemPrompt) + MessageOverhead

(* C19: whatever the input history contains, the sequence returned by        *)
(* ContextBuilder.Build has a system-role message at index 0 and no other    *)
(* system-role message.                                                      *)
C19_OneSystemMessage ==
    BuildEvent =>
        /\ Len(ev.res.messages) >= 1
        /\ ev.res.messages[1].Role = "system"
        /\ \A i \in 2..Len(ev.res.messages) : ev.res.messages[i].Role # "system"

RECURSIVE SumTokens(_)
SumTokens(seq) ==
    IF seq = <<>> THEN 0 ELSE MsgTokens(Head(seq)) + SumTokens(Tail(seq))

(* C20: the total token count returned by Build never exceeds                *)
(* maxTokens - reserveTokens, except when the system prompt's own cost       *)
(* (content tokens plus the per-message overhead of 4) alone exceeds that    *)
(* budget; the total is the cost of the messages returned.                   *)
C20_TotalWithinBudget ==
    BuildEvent =>
        /\ ev.res.total = SumTokens(ev.res.messages)
        /\ SystemCost <= Available => ev.res.total <= Available

\* The budget cut the history short.
C20_Witness ==
    /\ BuildEvent /\ SystemCost < Available
    /\ Len(ev.res.messages) > 1
    /\ Len(ev.res.messages) - 1 < Len(ev.messages)
    /\ ev.res.total <= Available

\* The history messages of the built context, and how many there are.
Kept == Tail(ev.res.messages)
Suffix(seq, k) == SubSeq(seq, Len(seq) - k + 1, Len(seq))

(* C21: the history messages selected by Build are a contiguous suffix of    *)
(* the input history, in their original order after the system message: no  *)
(* message is kept while a newer one is dropped, even when an older message  *)
(* would have fit.                                                           *)
C21_KeptIsSuffix ==
    BuildEvent =>
        /\ Len(Kept) <= Len(ev.messages)
        /\ Kept = Suffix(ev.messages, Len(Kept))

\* The newest message is kept, the one before it is too big and is dropped,
\* and the oldest, which would have fit, is dropped with it.
C21_Witness ==
    /\ BuildEvent /\ Len(ev.messages) = 3 /\ Len(Kept) = 1
    /\ Kept[1] = ev.messages[3]
    /\ ev.res.total + MsgTokens(ev.messages[2]) > Available
    /\ ev.res.total + MsgTokens(ev.messages[1]) <= Available

(* C22: when the system prompt's cost alone exceeds maxTokens -              *)
(* reserveTokens, Build returns no error and exactly one message, the        *)
(* unmodified system prompt, with the system prompt's own cost as the total. *)
C22_SystemPromptAlone ==
    (BuildEvent /\ SystemCost > Available) =>
        /\ ~ev.res.err
        /\ Len(ev.res.messages) = 1
        /\ ev.res.messages[1].Role = "system"
        /\ ev.res.messages[1].Content = ev.systemPrompt
        /\ ev.res.total = SystemCost

C22_Witness ==
    /\ BuildEvent /\ SystemCost > Available /\ Len(ev.messages) > 0
    /\ Len(ev.res.messages) = 1 /\ ev.res.total = SystemCost

\* The newest message of the input, and the one just older than the kept ones
Newest == ev.messages[Len(ev.messages)]
NextOlder == ev.messages[Len(ev.messages) - Len(Kept)]

(* C33: Build keeps as many of the newest messages as fit: when the          *)
(* selection stops before the oldest message, the message immediately older  *)
(* than the kept suffix would push the total over maxTokens - reserveTokens;  *)
(* the most recent message is kept whenever it fits together with the        *)
(* system prompt.                                                            *)
C33_KeepsAsManyAsFit ==
    BuildEvent =>
        /\ Len(Kept) < Len(ev.messages) =>
              ev.res.total + MsgTokens(NextOlder) > Available
        /\ (ev.messages # <<>> /\ SystemCost + MsgTokens(Newest) <= Available) =>
              (Kept # <<>> /\ Kept[Len(Kept)] = Newest)

\* Two of three messages are kept, they fill the budget exactly, and the
\* oldest one is left out.
C33_Witness ==
    /\ BuildEvent /\ Len(ev.messages) = 3 /\ Len(Kept) = 2
    /\ Kept[2] = Newest
    /\ ev.res.total = Available
    /\ ev.res.total + MsgTokens(ev.messages[1]) > Available

(* C23: WillFit(current, candidate) is true exactly when Build would add a   *)
(* message of cost candidate at running total current, that is exactly when  *)
(* current + candidate <= maxTokens - reserveTokens.                         *)
C23_WillFitAgreesWithBuild ==
    ev.op = "WillFit" =>
        /\ ev.res <=> Fits(ev.current, ev.candidate, Available)
        /\ ev.res <=> ev.current + ev.candidate <= Available

\* A message that the reserve keeps out although it is below maxTokens.
C23_Witness ==
    /\ ev.op = "WillFit" /\ ~ev.res
    /\ ev.current + ev.candidate <= ev.cb.maxTokens

-----------------------------------------------------------------------------
(* Requests: one /ask, thread message or regenerate at a time goes through   *)
(* its handler while Bot.Reload may run beside it.                           *)

TheUser == "user1"
Limiter == <<rateSeq, firstAt, rateUsed, tokenUsed, admitted>>

\* The user's token usage in the current period, as stored.
StoredUsage(db) ==
    GET(db, TokenLimit(Guild, TheUser, PeriodStart(now, SecondsPerHour)), now)

\* The handler ends: what it did is recorded.
Outcome(r, outcome) == [r EXCEPT !.pc = "idle", !.op = "request", !.outcome = outcome]

\* The handler's first lines: the conversation is loaded (thread message and
\* regenerate), and GetConfig returns the current configuration under the
\* read lock.
StartRequest(path, roles, modelRef) ==
    /\ req.pc = "idle"
    /\ calls < MaxRequests
    /\ reload.pc = "idle"
    /\ path # "ask" => (conv.exists /\ modelRef = conv.Model)
    /\ ~GetGuild(bot.config, Guild).err
    /\ calls' = calls + 1
    /\ req' = [pc |-> "authorize", op |-> "request", outcome |-> "",
               path |-> path, roles |-> roles, model |-> modelRef,
               cfg |-> bot.config, seenRbac |-> bot.config,
               seenRegistry |-> bot.config, storeAtStart |-> store,
               steps |-> <<>>, estimate |-> 0, sent |-> 0, context |-> <<>>,
               usageBefore |-> 0, usageChecked |-> 0, usageAtEnd |-> 0,
               metered |-> FALSE, newUserMsg |-> <<>>, systemPrompt |-> <<>>,
               usage |-> [CompletionTokens |-> 0, TotalTokens |-> 0],
               conv |-> conv, stored |-> conv]
    /\ ev' = NoEvent
    /\ UNCHANGED <<now, store, pc, arg, Limiter, config, history, bot, reload, conv,
                   historyExp, added, encoders>>

\* The rbac checks: use_models in every path, CanUseModel in handleAsk only.
Authorize ==
    /\ req.pc = "authorize"
    /\ LET r == [req EXCEPT !.seenRbac = config,
                            !.steps = IF req.path = "ask"
                                      THEN <<"HasPermission", "CanUseModel">>
                                      ELSE <<"HasPermission">>]
       IN  IF ~HasPermission(config, Guild, req.roles, "use_models")
           THEN /\ req' = NoRequest /\ ev' = Outcome(r, "no_permission")
           ELSE IF req.path = "ask" /\ ~CanUseModel(config, Guild, req.roles, req.model)
           THEN /\ req' = NoRequest /\ ev' = Outcome(r, "model_not_allowed")
           ELSE /\ req' = [r EXCEPT !.pc = "quota"] /\ ev' = NoEvent
    /\ UNCHANGED <<now, store, pc, arg, calls, Limiter, config, history, bot, reload,
                   conv,
                   historyExp, added, encoders>>

\* What each handler passes to CheckTokenLimit and what it then sends.
UserMsg == [Role |-> "user", Content |-> PromptText,
            Tokens |-> Count(PromptText) + MessageOverhead]
SystemMsg(prompt) == [Role |-> "system", Content |-> prompt,
                      Tokens |-> Count(prompt) + MessageOverhead]
Estimate(path, systemPrompt, messages) ==
    IF path = "ask" THEN UserMsg.Tokens + SystemMsg(systemPrompt).Tokens + ResponseReserve
    ELSE IF path = "thread" THEN UserMsg.Tokens + ResponseReserve
    ELSE TokensField(messages) + ResponseReserve

\* The messages the handler works on: the two new ones (ask), the history
\* with the new user message (thread), the history without a trailing
\* assistant message (regenerate).
Working(path, systemPrompt) ==
    IF path = "ask" THEN <<SystemMsg(systemPrompt), UserMsg>>
    ELSE IF path = "thread" THEN Append(history, UserMsg)
    ELSE DropLastAssistant(history)

\* The context sent to the model and its token total.
Context(path, guildCfg, systemPrompt, messages) ==
    IF path = "ask"
    THEN [messages |-> messages, total |-> TokensField(messages)]
    ELSE LET b == Build([maxTokens |-> guildCfg.MaxContextTokens,
                         reserveTokens |-> ResponseReserve], messages, systemPrompt)
         IN  [messages |-> b.messages, total |-> b.total]

\* The rate check, the token check with the handler's estimate, and the
\* assembly of the context, in the handler's order.
Quota ==
    /\ req.pc = "quota"
    /\ LET guildCfg == GetGuild(req.cfg, Guild).guild
           rate == CheckRateLimit(store, now, Guild, TheUser,
                                  getRateLimitForMember(guildCfg, req.roles))
           systemPrompt == IF req.path = "ask" THEN ShortPrompt
                           ELSE req.conv.SystemPrompt
           messages == Working(req.path, systemPrompt)
           estimate == Estimate(req.path, systemPrompt, messages)
           limit == getTokenLimitForMember(guildCfg, req.roles)
           tok == CheckTokenLimit(rate.db, now, Guild, TheUser, limit, estimate)
           ctx == Context(req.path, guildCfg, systemPrompt, messages)
           r1 == [req EXCEPT !.steps = req.steps \o <<"CheckRateLimit">>]
           r2 == [r1 EXCEPT !.steps = r1.steps \o <<"CheckTokenLimit">>,
                            !.estimate = estimate,
                            !.metered = ~limit.Bypass /\ limit.TokensPerPeriod > 0,
                            !.usageBefore = StoredUsage(rate.db),
                            !.usageChecked = StoredUsage(tok.db),
                            !.systemPrompt = systemPrompt]
           r3 == [r2 EXCEPT !.steps = IF req.path = "ask" THEN r2.steps
                                      ELSE r2.steps \o <<"Build">>,
                            !.context = ctx.messages, !.sent = ctx.total]
       IN  IF ~rate.res.Allowed
           THEN /\ store' = rate.db /\ req' = NoRequest
                /\ ev' = Outcome(r1, "rate_limited")
           ELSE IF req.path = "regenerate" /\ Len(history) = 0
           THEN /\ store' = rate.db /\ req' = NoRequest
                /\ ev' = Outcome(r1, "no_history")
           ELSE IF ~tok.res.Allowed
           THEN /\ store' = tok.db /\ req' = NoRequest
                /\ ev' = Outcome(r2, "token_limited")
           ELSE /\ store' = tok.db /\ req' = [r3 EXCEPT !.pc = "chat"]
                /\ ev' = NoEvent
    /\ UNCHANGED <<now, pc, arg, calls, Limiter, config, history, bot, reload, conv,
                   historyExp, added, encoders>>

\* llmRegistry.Chat fails: the handler reports it and ends.
ChatFails ==
    /\ req.pc = "chat"
    /\ req' = NoRequest
    /\ ev' = Outcome([req EXCEPT !.seenRegistry = bot.registry,
                                 !.steps = req.steps \o <<"Chat">>,
                                 !.usageAtEnd = StoredUsage(store)], "chat_failed")
    /\ UNCHANGED <<now, store, pc, arg, calls, Limiter, config, history, bot, reload,
                   conv,
                   historyExp, added, encoders>>

AssistantMsg(usage) ==
    [Role |-> "assistant", Content |-> <<"r">>, Tokens |-> usage.CompletionTokens]

\* Manager.AddMessage applied to a list
Added(list, msg) == LTrim(Append(list, msg), MaxMessages)

\* llmRegistry.Chat answers with `usage`; the handler stores the messages
\* and ends with Manager.Update, which writes every field of the metadata it
\* loaded at its start, with the token count raised.
ChatSucceeds(usage) ==
    /\ req.pc = "chat"
    /\ history' =
          IF req.path = "ask"
          THEN Added(Added(Added(<<>>, SystemMsg(req.systemPrompt)), UserMsg),
                     AssistantMsg(usage))
          ELSE IF req.path = "thread"
          THEN Added(Added(history, UserMsg), AssistantMsg(usage))
          ELSE Added(history, AssistantMsg(usage))
    /\ conv' =
          IF req.path = "ask"
          THEN [exists |-> TRUE, Model |-> req.model, SystemPrompt |-> req.systemPrompt,
                TokenCount |-> usage.TotalTokens]
          ELSE [req.conv EXCEPT !.TokenCount = @ + usage.TotalTokens]
    /\ req' = NoRequest
    /\ ev' = Outcome([req EXCEPT !.seenRegistry = bot.registry,
                                 !.steps = req.steps \o <<"Chat">>,
                                 !.usage = usage,
                                 !.usageAtEnd = StoredUsage(store),
                                 !.stored = conv], "served")
    /\ historyExp' = now + ConversationTTL
    /\ UNCHANGED <<now, store, pc, arg, calls, Limiter, config, bot, reload, added, encoders>>

\* Bot.Reload, under the write lock: the registry first, ...
ReloadRegistry(cfg) ==
    /\ reload.pc = "idle"
    /\ bot' = [bot EXCEPT !.registry = cfg]
    /\ reload' = [pc |-> "rbac", cfg |-> cfg]
    /\ ev' = NoEvent
    /\ UNCHANGED <<now, store, pc, arg, calls, Limiter, config, history, req, conv,
                   historyExp, added, encoders>>

\* ... then the rbac Manager, ...
ReloadRbac ==
    /\ reload.pc = "rbac"
    /\ config' = reload.cfg
    /\ reload' = [reload EXCEPT !.pc = "config"]
    /\ ev' = NoEvent
    /\ UNCHANGED <<now, store, pc, arg, calls, Limiter, history, bot, req, conv,
                   historyExp, added, encoders>>

\* ... then Bot.config.
ReloadConfig ==
    /\ reload.pc = "config"
    /\ bot' = [bot EXCEPT !.config = reload.cfg]
    /\ reload' = NoReload
    /\ ev' = NoEvent
    /\ UNCHANGED <<now, store, pc, arg, calls, Limiter, config, history, req, conv,
                   historyExp, added, encoders>>

NextRequest ==
    \/ \E path \in Paths, roles \in RequestRoles, m \in RequestModels :
          StartRequest(path, roles, m)
    \/ Authorize
    \/ Quota
    \/ ChatFails
    \/ \E u \in UsageChoices : ChatSucceeds(u)
    \/ \E cfg \in RequestConfigs : ReloadRegistry(cfg)
    \/ ReloadRbac
    \/ ReloadConfig

SpecRequest == Init /\ [][NextRequest]_vars

RequestEvent == ev.op = "request"
Served == RequestEvent /\ ev.outcome = "served"
Invoked == RequestEvent /\ ev.outcome \in {"served", "chat_failed"}
StepAt(name) == CHOOSE i \in 1..Len(ev.steps) : ev.steps[i] = name
Did(name) == \E i \in 1..Len(ev.steps) : ev.steps[i] = name

(* C24: after a request's model invocation succeeds, the realized token      *)
(* cost reported by the model is committed to the user's token-quota         *)
(* counter: the stored usage is the usage before or after the quota check    *)
(* plus the realized cost, not just the estimate charged before the call.    *)
C24_RealizedCostCommitted ==
    (Served /\ ev.metered) =>
        ev.usageAtEnd \in {ev.usageBefore + ev.usage.TotalTokens,
                           ev.usageChecked + ev.usage.TotalTokens}

(* C25: no request path invokes a model for a member for whom CanUseModel    *)
(* is false on that model, and a model that is not permitted is rejected     *)
(* before any quota check.                                                   *)
C25_ModelPermittedBeforeInvocation ==
    /\ Invoked => CanUseModel(ev.seenRbac, Guild, ev.roles, ev.model)
    /\ (RequestEvent /\ ev.outcome = "model_not_allowed") =>
          (~Did("CheckRateLimit") /\ store = ev.storeAtStart)

(* C26: in each request path the context is assembled before the token       *)
(* quota is checked, and the amount passed to CheckTokenLimit is never less  *)
(* than the token total of the messages sent to the model.                   *)
C26_ContextBeforeTokenCheck ==
    /\ (RequestEvent /\ Did("Build")) => StepAt("Build") < StepAt("CheckTokenLimit")
    /\ Invoked => ev.estimate >= ev.sent

(* C27: every request evaluation running beside Bot.Reload reads its guild   *)
(* configuration, its RBAC policy and its provider registry all from the     *)
(* old snapshot or all from the new one, never from a mix.                   *)
C27_ReloadAtomicForReaders ==
    Invoked => (ev.cfg = ev.seenRbac /\ ev.seenRbac = ev.seenRegistry)

(* C28: a member whose roles grant unlimited_rate is never rejected for      *)
(* exceeding the request rate limit, and a member whose roles grant          *)
(* unlimited_tokens is never rejected for exceeding the token limit.         *)
C28_UnlimitedNeverRejected ==
    RequestEvent =>
        /\ ev.outcome = "rate_limited" =>
              ~HasPermission(ev.seenRbac, Guild, ev.roles, "unlimited_rate")
        /\ ev.outcome = "token_limited" =>
              ~HasPermission(ev.seenRbac, Guild, ev.roles, "unlimited_tokens")

-----------------------------------------------------------------------------
(* Several principals use the limiter, each with the limits of the tests.    *)

SharedRateLimit == [RequestsPerMinute |-> 2, RequestsPerHour |-> 10]
SharedTokenLimit == [Bypass |-> FALSE, TokensPerPeriod |-> 100, PeriodHours |-> 1]
SharedAmount == 50

\* The call that finished before this one, in short.
Previous ==
    IF ev.op = "check"
    THEN [op |-> "check", kind |-> ev.kind, who |-> ev.who, Allowed |-> ev.res.Allowed]
    ELSE NoEvent

RateCheck(q) ==
    /\ calls < MaxCalls
    /\ calls' = calls + 1
    /\ LET r == CheckRateLimit(store, now, q[1], q[2], SharedRateLimit)
       IN  /\ store' = r.db
           /\ ev' = [op |-> "check", kind |-> "rate", who |-> q, before |-> store,
                     after |-> r.db, res |-> r.res, prev |-> Previous]
    /\ UNCHANGED <<now, pc, arg, Limiter, config, history, bot, reload, req, conv,
                   historyExp, added, encoders>>

TokenCheck(q) ==
    /\ calls < MaxCalls
    /\ calls' = calls + 1
    /\ LET r == CheckTokenLimit(store, now, q[1], q[2], SharedTokenLimit, SharedAmount)
       IN  /\ store' = r.db
           /\ ev' = [op |-> "check", kind |-> "token", who |-> q, before |-> store,
                     after |-> r.db, res |-> r.res, prev |-> Previous]
    /\ UNCHANGED <<now, pc, arg, Limiter, config, history, bot, reload, req, conv,
                   historyExp, added, encoders>>

NextUsers ==
    \/ \E q \in Principals : RateCheck(q)
    \/ \E q \in Principals : TokenCheck(q)

SpecUsers == Init /\ [][NextUsers]_vars

CheckEvent == ev.op = "check"
\* The caller's own counters were untouched before the call.
FreshCaller == \A k \in KeysOf(ev.who) : ev.before[k] = Nil

(* C29: rate and token checks for one (guild, user) never change the         *)
(* counters of another (guild, user); a principal whose own counters are     *)
(* unused is allowed, even right after another one has exhausted its quota   *)
(* and was denied.                                                           *)
C29_PrincipalsIsolated ==
    CheckEvent =>
        /\ \A q \in Principals \ {ev.who} :
              \A k \in KeysOf(q) \ KeysOf(ev.who) : ev.after[k] = ev.before[k]
        /\ \A q \in Principals \ {ev.who} : KeysOf(q) \cap KeysOf(ev.who) = {}
        /\ FreshCaller => ev.res.Allowed

\* user1 was just denied on its exhausted minute window; user2 of the same
\* guild is allowed.
C29_Witness ==
    /\ CheckEvent /\ ev.kind = "rate" /\ ev.who = <<Guild, "user2">> /\ ev.res.Allowed
    /\ ev.prev.op = "check" /\ ev.prev.kind = "rate"
    /\ ev.prev.who = <<Guild, "user1">> /\ ~ev.prev.Allowed
    /\ GET(store, RateLimitMinute(Guild, "user1"), now) = SharedRateLimit.RequestsPerMinute

-----------------------------------------------------------------------------
(* Conversation history: messages are added while time passes *)

\* Manager.AddMessage; the call and its message are recorded
AddRecorded(msg) ==
    /\ calls < MaxAdds
    /\ StoreMessage(msg)
    /\ added' = [all |-> Append(added.all, msg), live |-> Append(added.live, msg)]
    /\ calls' = calls + 1
    /\ ev' = [op |-> "AddMessage", msg |-> msg, before |-> history]
    /\ UNCHANGED <<now, store, pc, arg, rateSeq, firstAt, rateUsed, tokenUsed,
                   admitted, config, bot, reload, req, conv, encoders>>

\* The messages of a test conversation: three that differ
TestMessages == {m \in MessageChoices : m.Tokens \in {0, 5}}

NextHistory ==
    \/ Tick
    \/ \E msg \in TestMessages : AddRecorded(msg)

SpecHistory == Init /\ [][NextHistory]_vars

\* The last min(Len(seq), MaxMessages) elements of seq
LastAdded(seq) == Suffix(seq, IF Len(seq) < MaxMessages THEN Len(seq) ELSE MaxMessages)

\* C30 as stated: after any sequence of AddMessage calls the stored history is
\* the last min(count, maxMessages) of all the messages added, in order.
C30_HistoryIsLastAdded == history = LastAdded(added.all)

\* C30, amended: the stored history is the last min(count, maxMessages) of the
\* messages added since the stored list was last created, in insertion order;
\* a list not written to for the manager's ttl is gone.
C30_HistoryIsLastLive ==
    /\ history = LastAdded(added.live)
    /\ (historyExp = NoExpiry) = (history = <<>>)
    /\ (added.live = <<>>) = (history = <<>>)

\* The oldest message has been trimmed away from a list that was created
\* after an earlier one had expired.
C30_Witness ==
    /\ ev.op = "AddMessage"
    /\ Len(added.live) > MaxMessages
    /\ Len(added.all) > Len(added.live)
    /\ history # ev.before
    /\ history[1] # added.live[1]

-----------------------------------------------------------------------------
(* TokenCounter: Count, getEncodingName and estimateTokens.  Here a text is  *)
(* the sequence of its bytes.                                                *)

MaxText == 5

Bytes == {"a", "b"}
Texts == UNION {[1..n -> Bytes] : n \in 0..MaxText}

\* Model names of the families getEncodingName tells apart, and one of none
GPTModels == {"gpt-4"}
ClaudeModels == {"claude-3"}
ModelNames == GPTModels \cup ClaudeModels \cup {"llama3", ""}

\* getEncodingName: every branch names the same encoding
getEncodingName(model) ==
    IF model \in GPTModels THEN "cl100k_base"
    ELSE IF model \in ClaudeModels THEN "cl100k_base"
    ELSE "cl100k_base"

\* encoder.Encode: a byte-pair encoding with the single merge "ab"
RECURSIVE Encode(_)
Encode(text) ==
    IF text = <<>> THEN <<>>
    ELSE IF Len(text) >= 2 /\ text[1] = "a" /\ text[2] = "b"
    THEN <<"ab">> \o Encode(SubSeq(text, 3, Len(text)))
    ELSE <<text[1]>> \o Encode(Tail(text))

estimateTokens_Floor(text) == Len(text) \div 4

\* estimateTokens: (len(text) + 3) / 4
estimateTokens(text) == (Len(text) + 3) \div 4

\* TokenCounter.Count on a counter whose cache is cache; loads tells whether
\* tiktoken.GetEncoding succeeds.  Yields the count, the error and the cache.
TokenCounterCount(cache, text, model, loads) ==
    LET encoding == getEncodingName(model) IN
    IF encoding \notin cache /\ ~loads
    THEN [n |-> estimateTokens(text), err |-> FALSE, cache |-> cache, estimated |-> TRUE]
    ELSE [n |-> Len(Encode(text)), err |-> FALSE, cache |-> cache \cup {encoding},
          estimated |-> FALSE]

\* NewTokenCounter: a counter with an empty cache
NewTokenCounter ==
    /\ encoders' = {}
    /\ ev' = NoEvent
    /\ UNCHANGED <<now, store, pc, arg, calls, rateSeq, firstAt, rateUsed, tokenUsed,
                   admitted, config, history, bot, reload, req, conv,
                   historyExp, added>>

CallCount(text, model, loads) ==
    LET r == TokenCounterCount(encoders, text, model, loads) IN
    /\ encoders' = r.cache
    /\ ev' = [op |-> "Count", text |-> text, model |-> model, loads |-> loads,
              cached |-> getEncodingName(model) \in encoders, res |-> r]
    /\ UNCHANGED <<now, store, pc, arg, calls, rateSeq, firstAt, rateUsed, tokenUsed,
                   admitted, config, history, bot, reload, req, conv,
                   historyExp, added>>

NextCount ==
    \/ NewTokenCounter
    \/ \E text \in Texts, model \in ModelNames, loads \in BOOLEAN :
          CallCount(text, model, loads)

SpecCount == Init /\ [][NextCount]_vars

CountEvent == ev.op = "Count"
\* No encoder is available: none is cached and none can be loaded.
NoEncoder == ~ev.cached /\ ~ev.loads
\* The least integer that is at least n / 4
CeilQuarter(n) == CHOOSE k \in 0..n : 4 * k >= n /\ 4 * (k - 1) < n

(* C31: token counting is total: Count returns a non-negative integer and   *)
(* no error for every text and model reference, 0 for the empty text, and   *)
(* the estimate ceil(len(text) / 4) when no encoder is available.            *)
C31_CountIsTotal ==
    CountEvent =>
        /\ ~ev.res.err
        /\ ev.res.n \in Nat
        /\ (ev.text = <<>>) => (ev.res.n = 0)
        /\ NoEncoder => (ev.res.n = CeilQuarter(Len(ev.text)))

\* A text of five bytes is estimated at two tokens when no encoder loads.
C31_Witness ==
    /\ CountEvent
    /\ NoEncoder
    /\ Len(ev.text) = 5
    /\ ev.res.n = 2
    /\ ~ev.res.err

-----------------------------------------------------------------------------
(* The counters' expiry: rate and token checks of one user while time passes *)

\* Limiter.CheckRateLimit as one call
RateRequest(limits) ==
    /\ calls < MaxCalls
    /\ calls' = calls + 1
    /\ LET r == CheckRateLimit(store, now, Guild, TheUser, limits)
       IN  /\ store' = r.db
           /\ ev' = [op |-> "ledger", kind |-> "rate", limits |-> limits,
                     before |-> store, after |-> r.db, res |-> r.res]
    /\ UNCHANGED <<now, pc, arg, Limiter, config, history, bot, reload, req, conv,
                   historyExp, added, encoders>>

\* Limiter.CheckTokenLimit as one call
TokenRequest(limit, tokensToAdd) ==
    /\ calls < MaxCalls
    /\ calls' = calls + 1
    /\ LET r == CheckTokenLimit(store, now, Guild, TheUser, limit, tokensToAdd)
       IN  /\ store' = r.db
           /\ ev' = [op |-> "ledger", kind |-> "token", before |-> store,
                     after |-> r.db, res |-> r.res]
    /\ UNCHANGED <<now, pc, arg, Limiter, config, history, bot, reload, req, conv,
                   historyExp, added, encoders>>

NextLedger ==
    \/ Tick
    \/ \E l \in RateLimitChoices : RateRequest(l)
    \/ \E l \in TokenLimitChoices, n \in TokenAmounts : TokenRequest(l, n)

SpecLedger == Init /\ [][NextLedger]_vars

(* C32: every rate or token counter the ledger creates carries an expiry    *)
(* from the moment it is created, and later increments never remove it: no  *)
(* counter key exists in the store without a time-to-live.                   *)
C32_CountersExpire ==
    \A k \in DOMAIN store :
        store[k] # Nil => (store[k].exp # NoExpiry /\ TTL(store, k, now) > 0)

\* A counter was incremented when less than a minute of its lifetime was left
\* and kept the expiry it was created with; a token counter is in use.
C32_Witness ==
    /\ ev.op = "ledger"
    /\ \E k \in DOMAIN store :
          /\ ev.before[k] # Nil
          /\ store[k].val > ev.before[k].val
          /\ store[k].exp = ev.before[k].exp
          /\ store[k].exp - now < MinuteTTL
    /\ \E k \in DOMAIN store : store[k] # Nil /\ store[k].val >= 30

-----------------------------------------------------------------------------
(* A denied caller waits for the reported time and asks again *)

\* The last call was a rate check that was denied.
Denied == ev.op = "ledger" /\ ev.kind = "rate" /\ ev.res.err = "" /\ ~ev.res.Allowed

\* The key of the window a denial names
WindowKey(limitType) ==
    IF limitType = "minute" THEN RateLimitMinute(Guild, TheUser)
    ELSE RateLimitHour(Guild, TheUser)

\* The caller sleeps SecondsToReset seconds, nobody else calls, and the same
\* CheckRateLimit is made again.
RetryAfter ==
    /\ Denied
    /\ calls < MaxCalls
    /\ now + ev.res.SecondsToReset <= MaxTime
    /\ calls' = calls + 1
    /\ now' = now + ev.res.SecondsToReset
    /\ LET db == Purge(store, now')
           r == CheckRateLimit(db, now', Guild, TheUser, ev.limits)
       IN  /\ store' = r.db
           /\ ev' = [op |-> "retry", limits |-> ev.limits, denied |-> ev.res,
                     deniedAt |-> now, window |-> store[WindowKey(ev.res.LimitType)],
                     before |-> db, after |-> r.db, res |-> r.res]
    /\ IF historyExp # NoExpiry /\ historyExp <= now'
       THEN /\ history' = <<>>
            /\ historyExp' = NoExpiry
            /\ added' = [added EXCEPT !.live = <<>>]
       ELSE UNCHANGED <<history, historyExp, added>>
    /\ UNCHANGED <<pc, arg, Limiter, config, bot, reload, req, conv, encoders>>

NextRetry ==
    \/ Tick
    \/ \E l \in RateLimitChoices : RateRequest(l)
    \/ RetryAfter

SpecRetry == Init /\ [][NextRetry]_vars

RetryEvent == ev.op = "retry"

C34_WitnessOtherWindow ==
    /\ RetryEvent
    /\ ev.denied.LimitType = "minute"
    /\ ~ev.res.Allowed /\ ev.res.LimitType = "hour"

-----------------------------------------------------------------------------
(* The store fails during a request's quota checks *)

Checks == {"CheckRateLimit", "CheckTokenLimit"}

\* How a handler goes on when the check returns (nil, err): handleAsk and
\* handleThreadMessage test err and report the failure; handleRegenerateButton
\* tests `err != nil || !result.Allowed` and then reads result.SecondsToReset
\* of the nil result.
AfterCheckError(path) ==
    IF path = "regenerate" THEN "nil_dereference" ELSE "check_failed"

\* The quota steps of a request during which EvalSha of `failing` returns an
\* error; the script is not run.
QuotaFault(failing) ==
    /\ req.pc = "quota"
    /\ LET guildCfg == GetGuild(req.cfg, Guild).guild
           rate == CheckRateLimit(store, now, Guild, TheUser,
                                  getRateLimitForMember(guildCfg, req.roles))
           limit == getTokenLimitForMember(guildCfg, req.roles)
           r1 == [req EXCEPT !.steps = req.steps \o <<"CheckRateLimit">>]
       IN  IF failing = "CheckRateLimit"
           THEN /\ store' = store
                /\ ev' = Outcome([r1 EXCEPT !.steps = r1.steps \o <<"error">>],
                                 AfterCheckError(req.path))
           ELSE /\ rate.res.Allowed
                /\ ~(req.path = "regenerate" /\ Len(history) = 0)
                /\ ~limit.Bypass
                /\ store' = rate.db
                /\ ev' = Outcome([r1 EXCEPT !.steps = r1.steps \o
                                                     <<"CheckTokenLimit", "error">>],
                                 AfterCheckError(req.path))
    /\ req' = NoRequest
    /\ UNCHANGED <<now, pc, arg, calls, Limiter, config, history, bot, reload, conv,
                   historyExp, added, encoders>>

NextOutage ==
    \/ NextRequest
    \/ \E failing \in Checks : QuotaFault(failing)

SpecOutage == Init /\ [][NextOutage]_vars

\* A check of the finished request returned an error.
CheckErrored == RequestEvent /\ Did("error")

(* C35: when CheckRateLimit or CheckTokenLimit returns an error, every       *)
(* request path (/ask, thread message, regenerate) ends the request without  *)
(* invoking the model and without reading fields of the absent result, and   *)
(* the failure is reported as a check failure, not as a quota denial.        *)
C35_CheckErrorEndsCleanly ==
    CheckErrored =>
        /\ ~Did("Chat")
        /\ ev.outcome # "nil_dereference"
        /\ ev.outcome = "check_failed"

-----------------------------------------------------------------------------
(* The conversation's settings are changed while requests are handled *)

\* Manager.UpdateModel: HSet of the field "model"
UpdateModel(model) ==
    /\ conv.exists
    /\ conv.Model # model
    /\ conv' = [conv EXCEPT !.Model = model]
    /\ ev' = NoEvent
    /\ UNCHANGED <<now, store, pc, arg, calls, Limiter, config, history, bot, reload,
                   req, historyExp, added, encoders>>

\* Manager.UpdateSystemPrompt: HSet of the field "system_prompt"
UpdateSystemPrompt(prompt) ==
    /\ conv.exists
    /\ conv.SystemPrompt # prompt
    /\ conv' = [conv EXCEPT !.SystemPrompt = prompt]
    /\ ev' = NoEvent
    /\ UNCHANGED <<now, store, pc, arg, calls, Limiter, config, history, bot, reload,
                   req, historyExp, added, encoders>>

NextSettings ==
    \/ NextRequest
    \/ \E model \in RequestModels : UpdateModel(model)
    \/ \E prompt \in SystemPrompts : UpdateSystemPrompt(prompt)

SpecSettings == Init /\ [][NextSettings]_vars

\* A thread message or a regeneration was served.
ServedInThread == Served /\ ev.path # "ask"

(* C36: a model or system-prompt change written by UpdateModel or            *)
(* UpdateSystemPrompt while a thread-message or regenerate handler is in     *)
(* flight on the same conversation is still in effect after that handler     *)
(* finishes: the stored model and system prompt after the handler's final    *)
(* metadata write are the ones stored just before it, not the ones the       *)
(* handler read at its start.                                                *)
C36_SettingsChangeSurvives ==
    ServedInThread =>
        /\ conv.Model = ev.stored.Model
        /\ conv.SystemPrompt = ev.stored.SystemPrompt

-----------------------------------------------------------------------------
(* Reloads that fail *)

\* The stage at which a reload fails: config.Load (reading, parsing and its
\* own Validate), Watcher.reload's Validate, or Bot.Reload
Stages == {"load", "validate", "apply"}

\* Mutant: the registry takes the new configuration before its clients are made.
RegistryReload_ReplaceFirst(registry, cfg, clientFails) ==
    [registry |-> cfg, err |-> clientFails]

\* Registry.Reload: the new clients are made first; when NewClient fails for
\* a provider the registry is left alone and the error is returned.
RegistryReload(registry, cfg, clientFails) ==
    IF clientFails THEN [registry |-> registry, err |-> TRUE]
    ELSE [registry |-> cfg, err |-> FALSE]

\* Manager.Reload of the rbac Manager: never an error
RbacReload(cfg) == [config |-> cfg, err |-> FALSE]

\* A reload, by the watcher or by /reload, that fails at `stage` with the
\* configuration cfg in the file.  Bot.Reload runs under the write lock.
FailedReload(stage, cfg) ==
    /\ reload.pc = "idle"
    /\ LET r == RegistryReload(bot.registry, cfg, TRUE)
       IN  /\ bot' = IF stage = "apply" THEN [bot EXCEPT !.registry = r.registry]
                      ELSE bot
           /\ config' = IF stage = "apply" /\ ~r.err THEN RbacReload(cfg).config
                         ELSE config
    /\ ev' = [op |-> "reload", stage |-> stage, cfg |-> cfg, failed |-> TRUE,
              before |-> [bot |-> bot, config |-> config]]
    /\ UNCHANGED <<now, store, pc, arg, calls, Limiter, history, reload, req, conv,
                   historyExp, added, encoders>>

NextReload ==
    \/ \E cfg \in RequestConfigs : ReloadRegistry(cfg)
    \/ ReloadRbac
    \/ ReloadConfig
    \/ \E g \in GuildIDs, m \in MemberRoles, p \in Permissions : CallHasPermission(g, m, p)
    \/ \E g \in GuildIDs, m \in MemberRoles, r \in ModelRefs : CallCanUseModel(g, m, r)
    \/ \E stage \in Stages, cfg \in RequestConfigs \cup {InitialConfig} :
          FailedReload(stage, cfg)

SpecReload == Init /\ [][NextReload]_vars

(* C37: a reload whose configuration file fails to load, fails validation,  *)
(* or fails to apply leaves the active configuration, the RBAC policy and   *)
(* the provider registry exactly as they were before the reload.            *)
C37_FailedReloadChangesNothing ==
    (ev.op = "reload" /\ ev.failed) =>
        /\ bot.config = ev.before.bot.config
        /\ config = ev.before.config
        /\ bot.registry = ev.before.bot.registry

\* A reload fails to apply a configuration that differs from the active one,
\* after an earlier reload had replaced the initial configuration.
C37_Witness ==
    /\ ev.op = "reload" /\ ev.failed /\ ev.stage = "apply"
    /\ ev.cfg # bot.config
    /\ bot.config # InitialConfig
    /\ bot.registry = bot.config /\ config = bot.config

-----------------------------------------------------------------------------
(* /usage *)

\* Bot.handleUsage: CheckRateLimit, then CheckTokenLimit with 0 tokens, whatever
\* the rate check said; the statistics are built from the two results.
HandleUsage(roles) ==
    /\ calls < MaxCalls
    /\ ~GetGuild(bot.config, Guild).err
    /\ calls' = calls + 1
    /\ LET guildCfg == GetGuild(bot.config, Guild).guild
           rateLimitCfg == getRateLimitForMember(guildCfg, roles)
           tokenLimitCfg == getTokenLimitForMember(guildCfg, roles)
           rate == CheckRateLimit(store, now, Guild, TheUser, rateLimitCfg)
           tok == CheckTokenLimit(rate.db, now, Guild, TheUser, tokenLimitCfg, 0)
       IN  /\ store' = tok.db
           /\ ev' = [op |-> "usage", roles |-> roles, limits |-> rateLimitCfg,
                     limit |-> tokenLimitCfg, before |-> store, after |-> tok.db,
                     rateStatus |-> rate.res, tokenStatus |-> tok.res]
    /\ UNCHANGED <<now, pc, arg, Limiter, config, history, bot, reload, req, conv,
                   historyExp, added, encoders>>

NextUsage ==
    \/ NextLedger
    \/ \E roles \in RequestRoles : HandleUsage(roles)

SpecUsage == Init /\ [][NextUsage]_vars

UsageEvent == ev.op = "usage"
\* The caller's request counters and token usage, as a store holds them now
Counters(db) ==
    [minute |-> GET(db, RateLimitMinute(Guild, TheUser), now),
     hour |-> GET(db, RateLimitHour(Guild, TheUser), now),
     tokens |-> GET(db, TokenLimit(Guild, TheUser, PeriodStart(now, SecondsPerHour)), now)]

(* C38: displaying usage with /usage is read-only for the quota: it changes  *)
(* neither the caller's minute and hour request counters nor the caller's    *)
(* token usage, so a request that would have been allowed before it is       *)
(* allowed after it.                                                         *)
C38_UsageIsReadOnly ==
    UsageEvent =>
        /\ Counters(ev.after) = Counters(ev.before)
        /\ CheckRateLimit(ev.before, now, Guild, TheUser, ev.limits).res.Allowed =>
              CheckRateLimit(ev.after, now, Guild, TheUser, ev.limits).res.Allowed

-----------------------------------------------------------------------------
(* Token limits of any value, the zero value included *)

\* config.TokenLimit{}: what TokenLimits.Default is for a guild whose
\* configuration has no token_limits section
ZeroTokenLimit == [Bypass |-> FALSE, TokensPerPeriod |-> 0, PeriodHours |-> 0]
TokenLimitValues == TokenLimitChoices \cup {ZeroTokenLimit}

\* Go's integer division a / b: a run-time panic when b is 0
Divide(a, b) ==
    IF b = 0 THEN [panic |-> TRUE, q |-> 0] ELSE [panic |-> FALSE, q |-> a \div b]

\* Limiter.CheckTokenLimit from its first line: the bypass, then
\* now.Unix() / periodSeconds, then the script
CallCheckTokenLimit(limit, tokensToAdd) ==
    /\ calls < MaxCalls
    /\ calls' = calls + 1
    /\ LET periodSeconds == limit.PeriodHours * SecondsPerHour
           aborted == ~limit.Bypass /\ Divide(now, periodSeconds).panic
           r == IF aborted THEN [db |-> store, res |-> <<>>]
                ELSE CheckTokenLimit(store, now, Guild, TheUser, limit, tokensToAdd)
       IN  /\ store' = r.db
           /\ ev' = [op |-> "CheckTokenLimit", limit |-> limit, n |-> tokensToAdd,
                     panic |-> aborted, res |-> r.res]
    /\ UNCHANGED <<now, pc, arg, Limiter, config, history, bot, reload, req, conv,
                   historyExp, added, encoders>>

\* Limiter.GetCurrentUsage: now.Unix() / periodSeconds, then GET of the key
CallGetCurrentUsage(periodHours) ==
    /\ calls < MaxCalls
    /\ calls' = calls + 1
    /\ LET periodSeconds == periodHours * SecondsPerHour
           d == Divide(now, periodSeconds)
           key == TokenLimit(Guild, TheUser, d.q * periodSeconds)
       IN  ev' = [op |-> "GetCurrentUsage", periodHours |-> periodHours,
                  panic |-> d.panic,
                  res |-> IF d.panic THEN <<>> ELSE <<GET(store, key, now)>>]
    /\ UNCHANGED <<now, store, pc, arg, Limiter, config, history, bot, reload, req,
                   conv, historyExp, added, encoders>>

NextZero ==
    \/ Tick
    \/ \E l \in TokenLimitValues, n \in TokenAmounts : CallCheckTokenLimit(l, n)
    \/ \E l \in TokenLimitValues : CallGetCurrentUsage(l.PeriodHours)

SpecZero == Init /\ [][NextZero]_vars

(* C39: CheckTokenLimit and GetCurrentUsage return a result or an error for  *)
(* every TokenLimit value, including the zero value (Bypass false,           *)
(* TokensPerPeriod 0, PeriodHours 0) of a guild with no token limit          *)
(* configured; they never abort the request.                                 *)
C39_TokenCallsAlwaysReturn ==
    ev.op \in {"CheckTokenLimit", "GetCurrentUsage"} => ~ev.panic

-----------------------------------------------------------------------------
(* The settings menu: component interactions and their routing.  A custom   *)
(* id or a value is kept as the sequence of its pieces.                      *)

ModelSelectID == <<"model", "_", "select">>
PromptSelectID == <<"prompt", "_", "select">>

\* The option values handleSettingsButton puts into the two select menus
ModelValue(modelRef) == <<"model", ":">> \o modelRef
PromptValue(prompt) == <<"prompt", ":">> \o prompt

\* strings.TrimPrefix
TrimPrefix(str, prefix) ==
    IF HasPrefix(str, prefix) THEN SubSeq(str, Len(prefix) + 1, Len(str)) ELSE str

\* Bot.handleButton: the handler chosen for a custom id
handleButton(customID) ==
    IF customID = <<"regenerate">> THEN "handleRegenerateButton"
    ELSE IF customID = <<"copy">> THEN "handleCopyButton"
    ELSE IF customID = <<"clear">> THEN "handleClearButton"
    ELSE IF customID = <<"settings">> THEN "handleSettingsButton"
    ELSE IF HasPrefix(customID, <<"model", ":">>) THEN "handleModelSelect"
    ELSE IF HasPrefix(customID, <<"prompt", ":">>) THEN "handlePromptSelect"
    ELSE "Unknown button"

\* A member chooses an option in a select menu of the settings message: an
\* interaction with the menu's custom id and the option's value arrives and
\* handleButton routes it.
ChooseOption(customID, value) ==
    /\ conv.exists
    /\ LET handler == handleButton(customID)
       IN  /\ conv' = IF handler = "handleModelSelect"
                       THEN [conv EXCEPT !.Model = TrimPrefix(value, <<"model", ":">>)]
                       ELSE IF handler = "handlePromptSelect"
                       THEN [conv EXCEPT
                               !.SystemPrompt = TrimPrefix(value, <<"prompt", ":">>)]
                       ELSE conv
           /\ ev' = [op |-> "component", customID |-> customID, value |-> value,
                     handler |-> handler, before |-> conv]
    /\ UNCHANGED <<now, store, pc, arg, calls, Limiter, config, history, bot, reload,
                   req, historyExp, added, encoders>>

NextMenu ==
    \/ NextRequest
    \/ \E modelRef \in RequestModels : ChooseOption(ModelSelectID, ModelValue(modelRef))
    \/ \E prompt \in SystemPrompts : ChooseOption(PromptSelectID, PromptValue(prompt))

SpecMenu == Init /\ [][NextMenu]_vars

ComponentEvent == ev.op = "component"

(* C40: choosing a model in the settings select menu of a conversation       *)
(* changes that conversation's stored model to the chosen one, and choosing  *)
(* a system prompt changes its stored system prompt: the component           *)
(* interaction is routed to handleModelSelect or handlePromptSelect.         *)
C40_SelectionChangesSetting ==
    /\ (ComponentEvent /\ ev.customID = ModelSelectID) =>
          /\ ev.handler = "handleModelSelect"
          /\ ModelValue(conv.Model) = ev.value
    /\ (ComponentEvent /\ ev.customID = PromptSelectID) =>
          /\ ev.handler = "handlePromptSelect"
          /\ PromptValue(conv.SystemPrompt) = ev.value

====
